---------------------------- MODULE Spec2Model ----------------------------
(***************************************************************************)
(* keep-sorted: block discovery, line grouping, sorting and reassembly,    *)
(* and the Findings / Fix entry points of package keepsorted.              *)
(*                                                                         *)
(* Text representation.  A string is a sequence of symbols.  A symbol is   *)
(* a byte (its ASCII value) or one of a few multi-byte lexemes that the    *)
(* code only ever tests as a whole: the two directive strings              *)
(* f.startDirective / f.endDirective.  Lexemes carry codes that order them *)
(* where their first byte orders them ('k' of "keep-sorted ..." is 107),   *)
(* so byte-wise string comparison is order-isomorphic on the modelled      *)
(* alphabet.                                                               *)
(* The letters k and l, which have the codes of the two lexemes, stand     *)
(* only in option words, after the start directive of their line.          *)
(*                                                                         *)
(* Indices are the Go (0-based) indices; Go's s[i] is s[i+1] here and      *)
(* Go's s[lo:hi] is SubSeq(s, lo+1, hi).                                   *)
(***************************************************************************)
EXTENDS Integers, Sequences, FiniteSets, TLC

(***************************************************************************)
(* Alphabet                                                                *)
(***************************************************************************)
TAB == 9
LF == 10
CR == 13
SP == 32
BANG == 33
DQUOTE == 34
HASH == 35
SQUOTE == 39
LPAREN == 40
RPAREN == 41
COMMA == 44
DASH == 45
SLASH == 47
BACKSLASH == 92
BACKTICK == 96

\* f.endDirective = ID + " end" and f.startDirective = ID + " start"
EndTok == 107
StartTok == 108

\* characters the option grammar names
EQUALS == 61
LBRACKET == 91
RBRACKET == 93

\* key=value words that follow a start directive
\* "block=yes"
OptBlock == <<98, 108, 111, 99, 107, 61, 121, 101, 115>>
\* "foo=yes"
OptBad == <<102, 111, 111, 61, 121, 101, 115>>
\* "group=maybe"
OptBadBool == <<103, 114, 111, 117, 112, 61, 109, 97, 121, 98, 101>>
\* "skip_lines=x"
OptBadInt == <<115, 107, 105, 112, 95, 108, 105, 110, 101, 115, 61, 120>>
\* "prefix_order=[a"
OptBadList == <<112, 114, 101, 102, 105, 120, 95, 111, 114, 100, 101, 114, 61, 91, 97>>
\* "group=no"
OptGroupNo == <<103, 114, 111, 117, 112, 61, 110, 111>>
\* "newline_separated=yes"
OptNewlineSep == <<110, 101, 119, 108, 105, 110, 101, 95, 115, 101, 112, 97, 114, 97, 116, 101, 100, 61, 121, 101, 115>>
\* "numeric=yes"
OptNumeric == <<110, 117, 109, 101, 114, 105, 99, 61, 121, 101, 115>>
\* "prefix_order=a,ab"
OptPrefixLongest == <<112, 114, 101, 102, 105, 120, 95, 111, 114, 100, 101, 114, 61, 97, 44, 97, 98>>
\* "prefix_order=b,,a"
OptPrefixEmpty == <<112, 114, 101, 102, 105, 120, 95, 111, 114, 100, 101, 114, 61, 98, 44, 44, 97>>
\* "prefix_order=b,a"
OptPrefixOrder == <<112, 114, 101, 102, 105, 120, 95, 111, 114, 100, 101, 114, 61, 98, 44, 97>>
\* "remove_duplicates=no"
OptRemoveDupNo == <<114, 101, 109, 111, 118, 101, 95, 100, 117, 112, 108, 105, 99, 97, 116, 101, 115, 61, 110, 111>>
\* "skip_lines=1"
OptSkip1 == <<115, 107, 105, 112, 95, 108, 105, 110, 101, 115, 61, 49>>
\* "skip_lines=2"
OptSkip2 == <<115, 107, 105, 112, 95, 108, 105, 110, 101, 115, 61, 50>>
\* "skip_lines=4"
OptSkip4 == <<115, 107, 105, 112, 95, 108, 105, 110, 101, 115, 61, 52>>
\* "sticky_prefixes=x"
OptStickyPrefix == <<115, 116, 105, 99, 107, 121, 95, 112, 114, 101, 102, 105, 120, 101, 115, 61, 120>>
\* "sticky_comments=no"
OptStickyNo == <<115, 116, 105, 99, 107, 121, 95, 99, 111, 109, 109, 101, 110, 116, 115, 61, 110, 111>>

\* unicode.IsSpace on the modelled bytes
IsSpace(c) == c \in {TAB, LF, 11, 12, CR, SP}

\* the regexp class \w ; every lexeme starts and ends with a word byte
IsWordChar(c) ==
  \/ c \in 48..57
  \/ c \in 65..90
  \/ c = 95
  \/ c \in 97..122

(***************************************************************************)
(* A local variable: x := v, followed by the code F that reads x           *)
(***************************************************************************)
With(v, F(_)) == F(v)

(***************************************************************************)
(* package strings                                                         *)
(***************************************************************************)
Min(a, b) == IF a < b THEN a ELSE b

HasPrefix(s, p) == Len(p) <= Len(s) /\ SubSeq(s, 1, Len(p)) = p

HasSuffix(s, p) == Len(p) <= Len(s) /\ SubSeq(s, Len(s) - Len(p) + 1, Len(s)) = p

TrimSuffix(s, p) == IF HasSuffix(s, p) THEN SubSeq(s, 1, Len(s) - Len(p)) ELSE s

\* strings.Index: 0-based index of the first occurrence of p in s, -1 if none
RECURSIVE IndexFrom(_, _, _)
IndexFrom(s, p, i) ==
  IF i + Len(p) > Len(s) THEN -1
  ELSE IF SubSeq(s, i + 1, i + Len(p)) = p THEN i
  ELSE IndexFrom(s, p, i + 1)

Index(s, p) == IndexFrom(s, p, 0)

Contains(s, p) == Index(s, p) >= 0

\* strings.Split(s, sep) for a non-empty separator
RECURSIVE Split(_, _)
Split(s, sep) ==
  LET i == Index(s, sep) IN
  IF i < 0 THEN <<s>>
  ELSE <<SubSeq(s, 1, i)>> \o Split(SubSeq(s, i + Len(sep) + 1, Len(s)), sep)

\* strings.Join
RECURSIVE Join(_, _)
Join(ss, sep) ==
  IF Len(ss) = 0 THEN <<>>
  ELSE IF Len(ss) = 1 THEN ss[1]
  ELSE ss[1] \o sep \o Join(Tail(ss), sep)

\* strings.TrimLeftFunc(s, unicode.IsSpace)
RECURSIVE TrimLeftSpace(_)
TrimLeftSpace(s) ==
  IF Len(s) > 0 /\ IsSpace(s[1]) THEN TrimLeftSpace(Tail(s)) ELSE s

\* strings.TrimSpace(s) == ""
IsBlank(s) == \A i \in 1..Len(s) : IsSpace(s[i])

\* strings.TrimSpace
RECURSIVE TrimRightSpace(_)
TrimRightSpace(s) ==
  IF Len(s) > 0 /\ IsSpace(s[Len(s)]) THEN TrimRightSpace(SubSeq(s, 1, Len(s) - 1)) ELSE s

TrimSpace(s) == TrimRightSpace(TrimLeftSpace(s))

\* strings.Compare / cmp.Compare on strings: -1, 0 or 1
RECURSIVE CompareStr(_, _)
CompareStr(a, b) ==
  IF Len(a) = 0 THEN (IF Len(b) = 0 THEN 0 ELSE -1)
  ELSE IF Len(b) = 0 THEN 1
  ELSE IF a[1] < b[1] THEN -1
  ELSE IF a[1] > b[1] THEN 1
  ELSE CompareStr(Tail(a), Tail(b))

\* strings.ToLower
ToLower(s) == [i \in 1..Len(s) |-> IF s[i] \in 65..90 THEN s[i] + 32 ELSE s[i]]

\* strings.Replace(s, p, "", 1)
RemoveFirst(s, p) ==
  LET i == Index(s, p) IN
  IF i < 0 THEN s ELSE SubSeq(s, 1, i) \o SubSeq(s, i + Len(p) + 1, Len(s))

\* concatenation of a sequence of sequences
RECURSIVE Flatten(_)
Flatten(ss) == IF Len(ss) = 0 THEN <<>> ELSE ss[1] \o Flatten(Tail(ss))

(***************************************************************************)
(* keep_sorted.go: line splitting                                          *)
(***************************************************************************)
\* func lines(s string) (lines []string, ending string)
lineEnding(s) ==
  IF Contains(s, <<CR, LF>>) THEN <<CR, LF>>
  ELSE IF Contains(s, <<CR>>) THEN <<CR>>
  ELSE <<LF>>

lines(s) == Split(s, lineEnding(s))

\* linesToString that leaves the last line without its ending
linesToStringUnterminated(ls, ending) == Join(ls, ending)

\* func linesToString(lines []string, ending string) string
linesToString(ls, ending) == Join(ls, ending) \o ending

(***************************************************************************)
(* options.go: blockOptions                                                *)
(***************************************************************************)
\* var defaultOptions = blockOptions{...}; unset fields are Go zero values.
\* A map is the set of its keys.  nonNil names the map and slice fields that
\* are not nil: a nil one and an empty one both hold no element.
defaultOptions ==
  [ AllowYAMLLists   |-> TRUE,
    SkipLines        |-> 0,
    Group            |-> TRUE,
    GroupPrefixes    |-> {},
    Block            |-> FALSE,
    StickyComments   |-> TRUE,
    StickyPrefixes   |-> {},
    CaseSensitive    |-> TRUE,
    Numeric          |-> FALSE,
    PrefixOrder      |-> <<>>,
    IgnorePrefixes   |-> <<>>,
    CommentOrder     |-> FALSE,
    NewlineSeparated |-> FALSE,
    RemoveDuplicates |-> TRUE,
    commentMarker    |-> <<>>,
    nonNil           |-> {},
    shared           |-> {} ]

\* func guessCommentMarker(startLine string) string
commentMarkers == << <<SLASH, SLASH>>, <<HASH>>, <<SLASH, 42>>, <<DASH, DASH>>, <<59>>, <<60, BANG, DASH, DASH>> >>

RECURSIVE firstMarker(_, _)
firstMarker(s, k) ==
  IF k > Len(commentMarkers) THEN <<>>
  ELSE IF HasPrefix(s, commentMarkers[k]) THEN commentMarkers[k]
  ELSE firstMarker(s, k + 1)

guessCommentMarker(startLine) == firstMarker(TrimSpace(startLine), 1)

\* func (opts *blockOptions) setCommentMarker(marker string)
setCommentMarker(opts, marker) ==
  IF opts.StickyComments
  THEN [opts EXCEPT !.commentMarker = marker, !.StickyPrefixes = @ \cup {marker},
                    !.nonNil = @ \cup {"StickyPrefixes"}]
  ELSE [opts EXCEPT !.commentMarker = marker]

\* func validate(opts *blockOptions) (warnings []error)
validate(opts) ==
  LET w1 == IF opts.SkipLines < 0 THEN <<"skip_lines has invalid value">> ELSE <<>>
      o1 == IF opts.SkipLines < 0 THEN [opts EXCEPT !.SkipLines = 0] ELSE opts
      bad2 == "GroupPrefixes" \in o1.nonNil /\ ~o1.Group
      w2 == IF bad2 THEN <<"group_prefixes may not be used with group=no">> ELSE <<>>
      o2 == IF bad2
            THEN [o1 EXCEPT !.GroupPrefixes = {}, !.nonNil = @ \ {"GroupPrefixes"},
                            !.shared = @ \ {"GroupPrefixes"}]
            ELSE o1
  IN [opts |-> o2, warns |-> w1 \o w2]

\* the exported fields of blockOptions in the order of the struct, each with
\* the key of its tag (the lower-case field name without one) and its type
blockOptionsFields ==
  << [key |-> <<97, 108, 108, 111, 119, 95, 121, 97, 109, 108, 95, 108, 105, 115, 116, 115>>,
      field |-> "AllowYAMLLists", type |-> "bool"],
     [key |-> <<115, 107, 105, 112, 95, 108, 105, 110, 101, 115>>,
      field |-> "SkipLines", type |-> "int"],
     [key |-> <<103, 114, 111, 117, 112>>,
      field |-> "Group", type |-> "bool"],
     [key |-> <<103, 114, 111, 117, 112, 95, 112, 114, 101, 102, 105, 120, 101, 115>>,
      field |-> "GroupPrefixes", type |-> "set"],
     [key |-> <<98, 108, 111, 99, 107>>,
      field |-> "Block", type |-> "bool"],
     [key |-> <<115, 116, 105, 99, 107, 121, 95, 99, 111, 109, 109, 101, 110, 116, 115>>,
      field |-> "StickyComments", type |-> "bool"],
     [key |-> <<115, 116, 105, 99, 107, 121, 95, 112, 114, 101, 102, 105, 120, 101, 115>>,
      field |-> "StickyPrefixes", type |-> "set"],
     [key |-> <<99, 97, 115, 101>>,
      field |-> "CaseSensitive", type |-> "bool"],
     [key |-> <<110, 117, 109, 101, 114, 105, 99>>,
      field |-> "Numeric", type |-> "bool"],
     [key |-> <<112, 114, 101, 102, 105, 120, 95, 111, 114, 100, 101, 114>>,
      field |-> "PrefixOrder", type |-> "list"],
     [key |-> <<105, 103, 110, 111, 114, 101, 95, 112, 114, 101, 102, 105, 120, 101, 115>>,
      field |-> "IgnorePrefixes", type |-> "list"],
     [key |-> <<99, 111, 109, 109, 101, 110, 116, 95, 111, 114, 100, 101, 114>>,
      field |-> "CommentOrder", type |-> "bool"],
     [key |-> <<110, 101, 119, 108, 105, 110, 101, 95, 115, 101, 112, 97, 114, 97, 116, 101, 100>>,
      field |-> "NewlineSeparated", type |-> "bool"],
     [key |-> <<114, 101, 109, 111, 118, 101, 95, 100, 117, 112, 108, 105, 99, 97, 116, 101, 115>>,
      field |-> "RemoveDuplicates", type |-> "bool"] >>

\* fieldIndexByKey[key], 0 when the key is not in the map
RECURSIVE fieldIndexFrom(_, _)
fieldIndexFrom(key, k) ==
  IF k > Len(blockOptionsFields) THEN 0
  ELSE IF blockOptionsFields[k].key = key THEN k
  ELSE fieldIndexFrom(key, k + 1)

fieldIndexByKey(key) == fieldIndexFrom(key, 1)

(***************************************************************************)
(* options_parser.go                                                       *)
(***************************************************************************)
\* boolValues: "yes" and "true", "no" and "false"
boolValuesTrue == { <<121, 101, 115>>, <<116, 114, 117, 101>> }

boolValuesFalse == { <<110, 111>>, <<102, 97, 108, 115, 101>> }

\* boolString
boolString(b) == IF b THEN <<121, 101, 115>> ELSE <<110, 111>>

\* the class [a-z_] of keyRegex
IsKeyChar(c) == c \in 97..122 \/ c = 95

\* the length of the run of [a-z_] that starts at index k of line
RECURSIVE keyRun(_, _)
keyRun(line, k) ==
  IF k < Len(line) /\ IsKeyChar(line[k + 1]) THEN 1 + keyRun(line, k + 1) ELSE 0

\* [a-z_]+= matches at index k of line
keyAt(line, k) ==
  /\ keyRun(line, k) > 0
  /\ k + keyRun(line, k) < Len(line)
  /\ line[k + keyRun(line, k) + 1] = EQUALS

\* keyRegex "(^| )(?P<key>[a-z_]+)=" : the index of the key of the leftmost
\* match that starts at index i or later, -1 if there is none
RECURSIVE findKey(_, _)
findKey(line, i) ==
  IF i >= Len(line) THEN -1
  ELSE IF i = 0 /\ keyAt(line, 0) THEN 0
  ELSE IF line[i + 1] = SP /\ keyAt(line, i + 1) THEN i + 1
  ELSE findKey(line, i + 1)

\* func (p *parser) popKey() (string, bool); rest is p.line after the call
popKey(line) ==
  With(findKey(line, 0), LAMBDA k :
    IF k < 0 THEN [ok |-> FALSE, key |-> <<>>, rest |-> line]
    ELSE [ok |-> TRUE,
          key |-> SubSeq(line, k + 1, k + keyRun(line, k)),
          rest |-> SubSeq(line, k + keyRun(line, k) + 2, Len(line))])

\* strings.Cut(s, sep) for a separator of one byte
Cut(s, sep) ==
  With(Index(s, <<sep>>), LAMBDA i :
    IF i < 0 THEN [before |-> s, after |-> <<>>, found |-> FALSE]
    ELSE [before |-> SubSeq(s, 1, i), after |-> SubSeq(s, i + 2, Len(s)), found |-> TRUE])

\* func (p *parser) popBool() (bool, error)
popBool(line) ==
  With(Cut(line, SP), LAMBDA c :
    [err |-> c.before \notin boolValuesTrue \cup boolValuesFalse,
     val |-> c.before \in boolValuesTrue,
     rest |-> c.after])

\* the digits of strconv.Atoi's argument: what follows an optional sign
unsigned(val) == IF Len(val) > 0 /\ val[1] \in {43, DASH} THEN Tail(val) ELSE val

\* the number a text of digits denotes
RECURSIVE digitsValue(_)
digitsValue(ds) ==
  IF Len(ds) = 0 THEN 0 ELSE 10 * digitsValue(SubSeq(ds, 1, Len(ds) - 1)) + (ds[Len(ds)] - 48)

\* strconv.Atoi on texts short enough for an int
Atoi(val) ==
  [err |-> Len(unsigned(val)) = 0 \/ \E k \in 1..Len(unsigned(val)) : unsigned(val)[k] \notin 48..57,
   val |-> IF Len(unsigned(val)) = 0 \/ \E k \in 1..Len(unsigned(val)) : unsigned(val)[k] \notin 48..57
           THEN 0
           ELSE IF val[1] = DASH THEN 0 - digitsValue(unsigned(val)) ELSE digitsValue(unsigned(val))]

\* func (p *parser) popInt() (int, error)
popInt(line) ==
  With(Cut(line, SP), LAMBDA c :
    [err |-> Atoi(c.before).err, val |-> Atoi(c.before).val, rest |-> c.after])

\* the loop of tryFindYAMLListAtStart from index idx on: quote is 0 or the
\* open quote, depth the count of open brackets; the result is the index
\* and the depth the loop ends with
RECURSIVE yamlScan(_, _, _, _)
yamlScan(s, idx, quote, depth) ==
  IF idx >= Len(s) THEN [idx |-> idx, depth |-> depth]
  ELSE IF s[idx + 1] = LBRACKET
    THEN yamlScan(s, idx + 1, quote, IF quote = 0 THEN depth + 1 ELSE depth)
  ELSE IF s[idx + 1] = RBRACKET /\ quote = 0
    THEN IF depth > 1 THEN yamlScan(s, idx + 1, quote, depth - 1)
         ELSE IF idx + 1 >= Len(s) THEN [idx |-> idx + 1, depth |-> depth - 1]
         ELSE IF s[idx + 2] = SP THEN [idx |-> idx + 2, depth |-> depth - 1]
         ELSE [idx |-> idx + 1, depth |-> depth]
  ELSE IF s[idx + 1] \in {DQUOTE, SQUOTE}
    THEN yamlScan(s, idx + 1,
                  IF quote = s[idx + 1] THEN 0 ELSE IF quote = 0 THEN s[idx + 1] ELSE quote, depth)
  ELSE IF s[idx + 1] = BACKSLASH /\ quote = DQUOTE /\ idx + 1 < Len(s)
          /\ s[idx + 2] \in {DQUOTE, BACKSLASH}
    THEN yamlScan(s, idx + 2, quote, depth)
  ELSE yamlScan(s, idx + 1, quote, depth)

\* a search that ends the list at the first bracket followed by a space or by
\* nothing, whatever the quotes and the depth
RECURSIVE firstClosing(_, _)
firstClosing(s, i) ==
  IF i > Len(s) THEN 0
  ELSE IF s[i] = RBRACKET /\ (i = Len(s) \/ s[i + 1] = SP) THEN i
  ELSE firstClosing(s, i + 1)

tryFindFirstClosing(s) ==
  IF Len(s) = 0 \/ s[1] # LBRACKET
    THEN [err |-> "errNotYAMLList", list |-> <<>>, rest |-> <<>>]
  ELSE IF firstClosing(s, 1) = 0 THEN [err |-> "unterminated YAML list", list |-> <<>>, rest |-> <<>>]
  ELSE [err |-> "", list |-> SubSeq(s, 1, Min(Len(s), firstClosing(s, 1) + 1)),
        rest |-> SubSeq(s, firstClosing(s, 1) + 2, Len(s))]

\* func tryFindYAMLListAtStart(s string) (list, rest string, err error)
tryFindYAMLListAtStart(s) ==
  IF Len(s) = 0 \/ s[1] # LBRACKET
    THEN [err |-> "errNotYAMLList", list |-> <<>>, rest |-> <<>>]
  ELSE With(yamlScan(s, 0, 0, 0), LAMBDA e :
    IF e.depth # 0 THEN [err |-> "unterminated YAML list", list |-> <<>>, rest |-> <<>>]
    ELSE [err |-> "", list |-> SubSeq(s, 1, e.idx), rest |-> SubSeq(s, e.idx + 1, Len(s))])

\* func parseYAMLList(list string) ([]string, error), for a flow sequence of
\* plain scalars: the texts between the commas, without the spaces around them
parseYAMLList(list) ==
  With(TrimSpace(list), LAMBDA t :
  With(TrimSpace(SubSeq(t, 2, Len(t) - 1)), LAMBDA inner :
    IF Len(inner) = 0 THEN <<>>
    ELSE [k \in 1..Len(Split(inner, <<COMMA>>)) |-> TrimSpace(Split(inner, <<COMMA>>)[k])]))

\* the end of popList: the text up to the next space, split at the commas
popPlainList(line) ==
  With(Cut(line, SP), LAMBDA c :
    [err |-> FALSE,
     val |-> IF Len(c.before) = 0 THEN <<>> ELSE Split(c.before, <<COMMA>>),
     rest |-> c.after])

\* func (p *parser) popList() ([]string, error)
popList(line, allowYAMLLists) ==
  IF ~allowYAMLLists THEN popPlainList(line)
  ELSE With(tryFindYAMLListAtStart(line), LAMBDA y :
    IF y.err = "errNotYAMLList" THEN popPlainList(line)
    ELSE IF y.err # "" THEN [err |-> TRUE, val |-> <<>>, rest |-> line]
    ELSE [err |-> FALSE, val |-> parseYAMLList(y.list), rest |-> y.rest])

\* func (p *parser) popSet() (map[string]bool, error)
popSet(line, allowYAMLLists) ==
  With(popList(line, allowYAMLLists), LAMBDA l :
    [err |-> l.err, val |-> { l.val[k] : k \in 1..Len(l.val) }, rest |-> l.rest])

\* func (p *parser) popValue(typ reflect.Type) (reflect.Value, error)
popValue(typ, line, allowYAMLLists) ==
  IF typ = "bool" THEN popBool(line)
  ELSE IF typ = "int" THEN popInt(line)
  ELSE IF typ = "list" THEN popList(line, allowYAMLLists)
  ELSE popSet(line, allowYAMLLists)

(***************************************************************************)
(* options.go: parseBlockOptions                                           *)
(***************************************************************************)
\* field.Set(val): a slice or map that was parsed is not nil
fieldSet(ret, f, val) ==
  IF f.type \in {"list", "set"}
  THEN [ret EXCEPT ![f.field] = val, !.nonNil = @ \cup {f.field}, !.shared = @ \ {f.field}]
  ELSE [ret EXCEPT ![f.field] = val]

\* a loop that ends at the first key that is not known and at the first
\* value that does not parse
RECURSIVE parseLoopBreak(_, _, _)
parseLoopBreak(line, ret, warns) ==
  With(popKey(line), LAMBDA k :
    IF ~k.ok THEN [opts |-> ret, warns |-> warns]
    ELSE IF fieldIndexByKey(k.key) = 0
      THEN [opts |-> ret, warns |-> Append(warns, "unrecognized option")]
    ELSE With(blockOptionsFields[fieldIndexByKey(k.key)], LAMBDA f :
         With(popValue(f.type, k.rest, ret.AllowYAMLLists), LAMBDA v :
           IF v.err THEN [opts |-> ret, warns |-> Append(warns, "while parsing option")]
           ELSE parseLoopBreak(v.rest, fieldSet(ret, f, v.val), warns))))

\* the loop of parseBlockOptions: popKey, the field of the key, popValue,
\* field.Set; a key that is not known or a value that does not parse adds a
\* warning and the loop goes on with what is left of the line
RECURSIVE parseLoop(_, _, _)
parseLoop(line, ret, warns) ==
  With(popKey(line), LAMBDA k :
    IF ~k.ok THEN [opts |-> ret, warns |-> warns]
    ELSE IF fieldIndexByKey(k.key) = 0
      THEN parseLoop(k.rest, ret, Append(warns, "unrecognized option"))
    ELSE With(blockOptionsFields[fieldIndexByKey(k.key)], LAMBDA f :
         With(popValue(f.type, k.rest, ret.AllowYAMLLists), LAMBDA v :
           IF v.err THEN parseLoop(v.rest, ret, Append(warns, "while parsing option"))
           ELSE parseLoop(v.rest, fieldSet(ret, f, v.val), warns))))

\* sort.SliceStable-like ordering of IgnorePrefixes by decreasing length
RECURSIVE insertByLen(_, _)
insertByLen(sorted, p) ==
  IF Len(sorted) = 0 THEN <<p>>
  ELSE IF Len(p) > Len(sorted[1]) THEN <<p>> \o sorted
  ELSE <<sorted[1]>> \o insertByLen(Tail(sorted), p)

RECURSIVE sortByLenDesc(_)
sortByLenDesc(ps) ==
  IF Len(ps) = 0 THEN <<>>
  ELSE insertByLen(sortByLenDesc(SubSeq(ps, 1, Len(ps) - 1)), ps[Len(ps)])

\* ret := defaults copies the struct: a map or slice of the defaults that is
\* not nil is the same map, the same array, in ret until field.Set puts
\* another one there
copyOf(defaults) == [defaults EXCEPT !.shared = defaults.nonNil]

\* the defaults as the caller holds them after parseBlockOptions has written
\* through ret: opts.StickyPrefixes[marker] = true of setCommentMarker and
\* the slices.SortFunc of ret.IgnorePrefixes
writtenThrough(defaults, ret, cm) ==
  [defaults EXCEPT
     !.StickyPrefixes =
        IF cm # <<>> /\ ret.StickyComments /\ "StickyPrefixes" \in ret.shared
        THEN @ \cup {cm} ELSE @,
     !.IgnorePrefixes =
        IF Len(ret.IgnorePrefixes) > 1 /\ "IgnorePrefixes" \in ret.shared
        THEN sortByLenDesc(@) ELSE @]

\* func parseBlockOptions(commentMarker, options string, defaults blockOptions)
\* with, as defaults, the defaults as the call leaves them
parseBlockOptions(commentMarker, options, defaults) ==
  With(parseLoop(options, copyOf(defaults), <<>>), LAMBDA p :
  With(guessCommentMarker(commentMarker), LAMBDA cm :
  With(IF cm # <<>> THEN setCommentMarker(p.opts, cm) ELSE p.opts, LAMBDA o1 :
  With(validate(IF Len(o1.IgnorePrefixes) > 1
                THEN [o1 EXCEPT !.IgnorePrefixes = sortByLenDesc(@)] ELSE o1), LAMBDA v :
    [opts |-> v.opts, warns |-> p.warns \o v.warns,
     defaults |-> writtenThrough(defaults, p.opts, cm)]))))

\* strconv.Itoa
RECURSIVE decimal(_)
decimal(n) == IF n < 10 THEN <<48 + n>> ELSE decimal(n \div 10) \o <<48 + (n % 10)>>

Itoa(n) == IF n < 0 THEN <<DASH>> \o decimal(0 - n) ELSE decimal(n)

\* slices.Sorted(maps.Keys(m))
RECURSIVE sortedKeys(_)
sortedKeys(m) ==
  IF m = {} THEN <<>>
  ELSE With(CHOOSE x \in m : \A y \in m : CompareStr(x, y) <= 0, LAMBDA x :
         <<x>> \o sortedKeys(m \ {x}))

\* func formatList(vals []string) (string, error): the values joined by
\* commas; a list that holds "," or " " in a value, or "[" first, is handed to
\* the YAML encoder, which writes it as a flow sequence
formatList(vals) ==
  IF \/ (Len(vals) > 0 /\ HasPrefix(vals[1], <<LBRACKET>>))
     \/ \E k \in 1..Len(vals) : \E i \in 1..Len(vals[k]) : vals[k][i] \in {COMMA, SP}
  THEN <<LBRACKET>> \o Join(vals, <<COMMA, SP>>) \o <<RBRACKET>>
  ELSE Join(vals, <<COMMA>>)

\* func formatValue(val reflect.Value) (string, error)
formatValue(typ, val) ==
  IF typ = "bool" THEN boolString(val)
  ELSE IF typ = "list" THEN formatList(val)
  ELSE IF typ = "set" THEN formatList(sortedKeys(val))
  ELSE Itoa(val)

\* reflect.Value.IsZero of field f of opts: false, 0, a nil slice, a nil map
IsZero(opts, f) ==
  IF f.type = "bool" THEN ~opts[f.field]
  ELSE IF f.type = "int" THEN opts[f.field] = 0
  ELSE f.field \notin opts.nonNil

\* the fields in the order of slices.Sorted(maps.Keys(fieldIndexByKey))
fieldsByKey == SortSeq(blockOptionsFields, LAMBDA f, g : CompareStr(f.key, g.key) < 0)

\* func (opts blockOptions) String() string
RECURSIVE stringFrom(_, _)
stringFrom(opts, k) ==
  IF k > Len(fieldsByKey) THEN <<>>
  ELSE (IF IsZero(opts, fieldsByKey[k]) THEN <<>>
        ELSE << fieldsByKey[k].key \o <<EQUALS>>
                \o formatValue(fieldsByKey[k].type, opts[fieldsByKey[k].field]) >>)
       \o stringFrom(opts, k + 1)

String(opts) == Join(stringFrom(opts, 1), <<SP>>)

\* func hasPrefix(s string, prefixes map[string]bool) bool
hasPrefix(s, prefixes) ==
  /\ prefixes # {}
  /\ \E p \in prefixes : HasPrefix(TrimLeftSpace(s), p)

\* no line has a sticky prefix
hasNoStickyPrefix(opts, s) == FALSE

\* func (opts blockOptions) hasStickyPrefix(s string) bool
hasStickyPrefix(opts, s) == hasPrefix(s, opts.StickyPrefixes)

hasGroupPrefix(opts, s) == hasPrefix(s, opts.GroupPrefixes)

(***************************************************************************)
(* keep_sorted.go: findings and fixes                                      *)
(***************************************************************************)
errorUnordered == "These lines are out of order."

\* func errorMissingDirective(id, dir string) string
errorMissingDirective(dir) ==
  IF dir = "end"
  THEN "This instruction doesn't have matching 'keep-sorted end' line. keep-sorted will not attempt to sort anything until this is addressed."
  ELSE "This instruction doesn't have matching 'keep-sorted start' line. keep-sorted will not attempt to sort anything until this is addressed."

\* func replacement(start, end int, s string) Fix
replacement(start, end, s) ==
  [Replacements |-> << [Lines |-> [Start |-> start, End |-> end], NewContent |-> s] >>,
   automatic |-> FALSE]

\* func finding(filename string, start, end int, msg string, fixes ...Fix) *Finding
finding(start, end, msg, fixes) ==
  [Lines |-> [Start |-> start, End |-> end], Message |-> msg, Fixes |-> fixes]

\* func includeModifiedLines(modifiedLines []LineRange) func(start, end int) bool
\* modifiedLines is [nil |-> BOOLEAN, ranges |-> set of LineRange]
includeModifiedLines(modifiedLines, start, end) ==
  \/ modifiedLines.nil
  \/ \E r \in modifiedLines.ranges : r.Start <= end /\ start <= r.End

NoModifiedLines == [nil |-> TRUE, ranges |-> {}]

(***************************************************************************)
(* block.go: newBlocks                                                     *)
(***************************************************************************)
\* the loop that walks endIndex back over blank lines
RECURSIVE trimEndIndex(_, _, _)
trimEndIndex(ls, startIndex, endIndex) ==
  IF endIndex > startIndex /\ IsBlank(ls[endIndex])  \* lines[endIndex-1]
  THEN trimEndIndex(ls, startIndex, endIndex - 1)
  ELSE endIndex

\* for len(nestedBlocks) < depth { nestedBlocks = append(nestedBlocks, nil) }
RECURSIVE padTo(_, _)
padTo(nb, depth) == IF Len(nb) < depth THEN padTo(Append(nb, <<>>), depth) ELSE nb

newBlocksInit(defaults) ==
  [ blocks |-> <<>>, incompleteBlocks |-> <<>>, warnings |-> <<>>,
    starts |-> <<>>, nestedBlocks |-> <<>>, panicked |-> FALSE ]

\* the handling of an end directive at index i once a start was popped
closeBlock(st, ls, i, offset, modifiedLines, defaults) ==
  With(st.starts[Len(st.starts)], LAMBDA start :
  With(trimEndIndex(ls, start.index, i), LAMBDA endIndex :
  With([st EXCEPT !.starts = SubSeq(st.starts, 1, Len(st.starts) - 1)], LAMBDA st1 :
  IF ~includeModifiedLines(modifiedLines, start.index + offset, endIndex + offset) THEN st1
  ELSE
  With(Index(start.line, <<StartTok>>), LAMBDA cut :
  With(parseBlockOptions(SubSeq(start.line, 1, cut),
                         SubSeq(start.line, cut + 2, Len(start.line)), defaults), LAMBDA parsed :
  With([st1 EXCEPT !.warnings = @ \o
          [k \in 1..Len(parsed.warns) |->
             finding(start.index + offset, start.index + offset, parsed.warns[k], <<>>)]], LAMBDA st2 :
  With(start.index + parsed.opts.SkipLines, LAMBDA sidx :
  With(Len(st1.starts), LAMBDA depth :
  With(Len(st2.nestedBlocks) = depth + 1, LAMBDA attach :
  With([ opts  |-> parsed.opts,
         start |-> sidx + offset,
         end   |-> endIndex + offset,
         lo    |-> sidx + 1,
         hi    |-> endIndex,
         nestedBlocks |-> IF attach THEN st2.nestedBlocks[depth + 1] ELSE <<>> ], LAMBDA block :
  With(IF attach THEN SubSeq(st2.nestedBlocks, 1, depth) ELSE st2.nestedBlocks, LAMBDA nb1 :
  IF sidx > endIndex THEN st2
  ELSE IF sidx + 1 > endIndex THEN [st2 EXCEPT !.panicked = TRUE]  \* lines[start.index+1 : endIndex]
  ELSE IF depth = 0 THEN [st2 EXCEPT !.blocks = Append(@, block), !.nestedBlocks = nb1]
  ELSE [st2 EXCEPT !.nestedBlocks = [padTo(nb1, depth) EXCEPT ![depth] = Append(@, block)]]
  )))))))))))

\* the body of "for i, l := range lines"
newBlocksStep(st, ls, i, offset, modifiedLines, defaults) ==
  LET l == ls[i + 1] IN
  IF Contains(l, <<StartTok>>)
    THEN [st EXCEPT !.starts = Append(@, [index |-> i, line |-> l])]
  ELSE IF Contains(l, <<EndTok>>)
    THEN IF Len(st.starts) = 0
         THEN [st EXCEPT !.incompleteBlocks = Append(@, [line |-> i + offset, dir |-> "endDirective"])]
         ELSE closeBlock(st, ls, i, offset, modifiedLines, defaults)
  ELSE st

RECURSIVE newBlocksLoop(_, _, _, _, _, _)
newBlocksLoop(st, ls, i, offset, modifiedLines, defaults) ==
  IF i >= Len(ls) \/ st.panicked THEN st
  ELSE newBlocksLoop(newBlocksStep(st, ls, i, offset, modifiedLines, defaults),
                     ls, i + 1, offset, modifiedLines, defaults)

\* the code after the loop: dangling starts and the flush of nestedBlocks
newBlocksFinish(st, offset) ==
  IF st.panicked \/ Len(st.starts) = 0 THEN st
  ELSE [st EXCEPT
          !.incompleteBlocks = @ \o [k \in 1..Len(st.starts) |->
                                       [line |-> st.starts[k].index + offset, dir |-> "startDirective"]],
          !.blocks = @ \o Flatten(st.nestedBlocks)]

\* func (f *Fixer) newBlocks(filename, lines, offset, include)
newBlocks(ls, offset, modifiedLines, defaults) ==
  newBlocksFinish(newBlocksLoop(newBlocksInit(defaults), ls, 0, offset, modifiedLines, defaults), offset)

(***************************************************************************)
(* line_group.go: indexRange, codeBlock, groupLines                        *)
(***************************************************************************)
\* type indexRange struct { start, end int; init bool }
emptyRange == [start |-> 0, end |-> 0, init |-> FALSE]

\* func (r *indexRange) empty() bool
rangeEmpty(r) == ~r.init \/ r.start = r.end

\* func (r *indexRange) append(i int): the guard of the panic
rangeAppendPanics(r, i) == r.init /\ r.end # i

\* an append that forgets the lines already in the range
rangeRestart(r, i) == [start |-> i, end |-> i + 1, init |-> TRUE]

rangeAppend(r, i) ==
  IF ~r.init THEN [start |-> i, end |-> i + 1, init |-> TRUE]
  ELSE [r EXCEPT !.end = i + 1]

\* func slice(s []string, r indexRange) []string, kept as the index pair
sliceOf(r) == IF rangeEmpty(r) THEN [start |-> 0, end |-> 0] ELSE [start |-> r.start, end |-> r.end]

\* func countIndent(s string) (indent int, hasNonSpaceCharacter bool)
RECURSIVE countSpaces(_)
countSpaces(s) == IF Len(s) > 0 /\ IsSpace(s[1]) THEN 1 + countSpaces(Tail(s)) ELSE 0

\* func calculateIndents(lines []string) []int
RECURSIVE fillIndents(_, _, _)
fillIndents(ret, i, indent) ==
  IF i = 0 THEN ret
  ELSE IF ret[i] = -1 THEN fillIndents([ret EXCEPT ![i] = indent], i - 1, indent)
  ELSE fillIndents(ret, i - 1, ret[i])

calculateIndents(ls) ==
  LET raw == [i \in 1..Len(ls) |->
                LET c == countSpaces(ls[i]) IN IF c = Len(ls[i]) THEN -1 ELSE c]
  IN fillIndents(raw, Len(ls), -1)

\* var braces, quotes
braceChars == {123, 125, 91, 93, LPAREN, RPAREN}
bracePairs == << <<123, 125>>, <<91, 93>>, <<LPAREN, RPAREN>> >>
quotes == << <<DQUOTE, DQUOTE, DQUOTE>>, <<SQUOTE, SQUOTE, SQUOTE>>, <<BACKTICK, BACKTICK, BACKTICK>>,
             <<DQUOTE>>, <<SQUOTE>>, <<BACKTICK>> >>

\* type codeBlock struct { braceCounts map[string]int; expectedQuote string }
emptyCodeBlock == [braceCounts |-> [c \in braceChars |-> 0], expectedQuote |-> <<>>]

\* a test that looks at the open quote alone
expectsQuoteOnly(cb) == cb.expectedQuote # <<>>

\* func (cb *codeBlock) expectsContinuation() bool
expectsContinuation(cb) ==
  \/ \E k \in 1..Len(bracePairs) : cb.braceCounts[bracePairs[k][1]] # cb.braceCounts[bracePairs[k][2]]
  \/ cb.expectedQuote # <<>>

\* func findQuote(s string, i int) string
RECURSIVE findQuoteFrom(_, _, _)
findQuoteFrom(s, i, k) ==
  IF k > Len(quotes) THEN <<>>
  ELSE LET q == quotes[k] IN
       IF Len(s) - i < Len(q) THEN findQuoteFrom(s, i, k + 1)
       ELSE IF Len(q) = 1 /\ i > 0 /\ s[i] = BACKSLASH THEN findQuoteFrom(s, i, k + 1)
       ELSE IF SubSeq(s, i + 1, i + Len(q)) = q THEN q
       ELSE findQuoteFrom(s, i, k + 1)

findQuote(s, i) == findQuoteFrom(s, i, 1)

\* func (cb *codeBlock) append(s string, opts blockOptions)
RECURSIVE codeBlockAppendFrom(_, _, _, _)
codeBlockAppendFrom(cb, s, i, opts) ==
  IF i >= Len(s) THEN cb
  ELSE
    LET ch  == s[i + 1]
        cb1 == IF cb.expectedQuote = <<>> /\ ch \in braceChars
               THEN [cb EXCEPT !.braceCounts[ch] = @ + 1] ELSE cb
        cm  == opts.commentMarker
        q   == findQuote(s, i)
    IN
    IF cb.expectedQuote = <<>> /\ cm # <<>> /\ Len(s) - i >= Len(cm) /\ SubSeq(s, i + 1, i + Len(cm)) = cm
      THEN cb1
    ELSE IF cb1.expectedQuote = <<>> /\ q # <<>>
      THEN codeBlockAppendFrom([cb1 EXCEPT !.expectedQuote = q], s, i + Len(q), opts)
    ELSE IF cb1.expectedQuote # <<>> /\ q = cb1.expectedQuote
      THEN codeBlockAppendFrom([cb1 EXCEPT !.expectedQuote = <<>>], s, i + Len(q), opts)
    ELSE codeBlockAppendFrom(cb1, s, i + 1, opts)

codeBlockAppend(cb, s, opts) == codeBlockAppendFrom(cb, s, 0, opts)

\* blockOptions has no GroupDelimiterRegexes field that an option could set
GroupDelimiterRegexes(opts) == <<>>

\* the state of the scan of groupLines
groupLinesInit ==
  [ groups |-> <<>>, commentRange |-> emptyRange, lineRange |-> emptyRange,
    hasInitialIndent |-> FALSE, initialIndent |-> 0,
    numUnmatchedStartDirectives |-> 0, block |-> emptyCodeBlock, panicked |-> FALSE ]

\* a count that ignores the directives
countNoDirectives(g, l) == g

\* countStartDirectives := func(l string)
countStartDirectives(g, l) ==
  IF Contains(l, <<StartTok>>) THEN [g EXCEPT !.numUnmatchedStartDirectives = @ + 1]
  ELSE IF Contains(l, <<EndTok>>) THEN [g EXCEPT !.numUnmatchedStartDirectives = @ - 1]
  ELSE g

\* appendLine := func(i int, l string)
appendLine(g, i, l, opts, indents) ==
  IF rangeAppendPanics(g.lineRange, i) THEN [g EXCEPT !.panicked = TRUE]
  ELSE
    With([g EXCEPT !.lineRange = rangeAppend(@, i)], LAMBDA g1 :
    With(IF opts.Block THEN [g1 EXCEPT !.block = codeBlockAppend(@, l, opts)] ELSE g1, LAMBDA g2 :
    With(IF opts.Group THEN countStartDirectives(g2, l) ELSE g2, LAMBDA g3 :
      IF opts.Group /\ ~g3.hasInitialIndent
      THEN [g3 EXCEPT !.hasInitialIndent = TRUE, !.initialIndent = indents[i + 1]]
      ELSE g3)))

\* finishGroup := func()
finishGroup(g) ==
  [g EXCEPT !.groups = Append(@, [comment |-> sliceOf(g.commentRange), lines |-> sliceOf(g.lineRange)]),
            !.commentRange = emptyRange,
            !.lineRange = emptyRange,
            !.block = emptyCodeBlock]

finishIfOpen(g) == IF ~rangeEmpty(g.lineRange) THEN finishGroup(g) ELSE g

\* the body of "for i, l := range lines" of groupLines
groupLinesStep(g, i, l, opts, indents) ==
  IF opts.Block /\ ~rangeEmpty(g.lineRange) /\ expectsContinuation(g.block)
    THEN appendLine(g, i, l, opts, indents)
  ELSE IF opts.Group /\ ( (~rangeEmpty(g.lineRange) /\ g.hasInitialIndent /\ indents[i + 1] > g.initialIndent)
                          \/ g.numUnmatchedStartDirectives > 0 )
    THEN appendLine(g, i, l, opts, indents)
  ELSE IF opts.Group /\ hasGroupPrefix(opts, l)
    THEN appendLine(g, i, l, opts, indents)
  ELSE IF hasStickyPrefix(opts, l)
    THEN With(finishIfOpen(g), LAMBDA g1 :
         IF rangeAppendPanics(g1.commentRange, i) THEN [g1 EXCEPT !.panicked = TRUE]
         ELSE With([g1 EXCEPT !.commentRange = rangeAppend(@, i)], LAMBDA g2 :
                IF opts.Group THEN countStartDirectives(g2, l) ELSE g2))
  ELSE IF Len(GroupDelimiterRegexes(opts)) # 0
    THEN appendLine(g, i, l, opts, indents)
  ELSE appendLine(finishIfOpen(g), i, l, opts, indents)

RECURSIVE groupLinesLoop(_, _, _, _, _)
groupLinesLoop(g, ls, i, opts, indents) ==
  IF i >= Len(ls) \/ g.panicked THEN g
  ELSE groupLinesLoop(groupLinesStep(g, i, ls[i + 1], opts, indents), ls, i + 1, opts, indents)

\* func groupLines(lines []string, metadata blockMetadata) []*lineGroup
\* A group is the pair of index ranges of its comment and content lines in
\* the slice it was cut from: the groups share that slice's backing array.
groupLines(ls, opts) ==
  With(IF opts.Group THEN calculateIndents(ls) ELSE <<>>, LAMBDA indents :
  With(groupLinesLoop(groupLinesInit, ls, 0, opts, indents), LAMBDA g :
    IF g.panicked THEN g
    ELSE IF ~rangeEmpty(g.commentRange) \/ ~rangeEmpty(g.lineRange) THEN finishGroup(g)
    ELSE g))

(***************************************************************************)
(* line_group.go: lineGroup.  w is the slice the groups were cut from.     *)
(***************************************************************************)
groupContent(w, lg) == SubSeq(w, lg.lines.start + 1, lg.lines.end)

groupComment(w, lg) == SubSeq(w, lg.comment.start + 1, lg.comment.end)

numLines(lg) == lg.lines.end - lg.lines.start

numComment(lg) == lg.comment.end - lg.comment.start

\* func (lg *lineGroup) allLines() []string
allLines(w, lg) == groupComment(w, lg) \o groupContent(w, lg)

\* func (lg *lineGroup) hasSuffix(s string) bool
hasSuffix(w, lg, s) == numLines(lg) > 0 /\ HasSuffix(w[lg.lines.end], s)

\* func (lg *lineGroup) append(s string): writes into the shared array
lgAppend(w, lg, s) == [w EXCEPT ![lg.lines.end] = @ \o s]

\* func (lg *lineGroup) trimSuffix(s string): writes into the shared array
lgTrimSuffix(w, lg, s) == [w EXCEPT ![lg.lines.end] = TrimSuffix(@, s)]

\* func (lg *lineGroup) internalJoinedLines() string
RECURSIVE joinFrom(_, _, _)
joinFrom(ls, k, last) ==
  IF k > Len(ls) THEN <<>>
  ELSE LET l   == TrimLeftSpace(ls[k])
           sep == IF Len(last) > 0 /\ Len(l) > 0 /\ IsWordChar(last[Len(last)]) /\ IsWordChar(l[1])
                  THEN <<SP>> ELSE <<>>
       IN sep \o l \o joinFrom(ls, k + 1, l)

joinedLines(w, lg) == joinFrom(groupContent(w, lg), 1, <<>>)

\* func (lg *lineGroup) joinedComment() string
joinedComment(w, lg) == Join(groupComment(w, lg), <<LF>>)

\* func (lg lineGroup) hasPrefix(s string) bool
lgHasPrefix(w, lg, s) == HasPrefix(joinedLines(w, lg), s)

\* func (lg lineGroup) less(other lineGroup) int
lgLess(w, a, b) ==
  With(CompareStr(joinedLines(w, a), joinedLines(w, b)), LAMBDA c :
    IF c # 0 THEN c ELSE CompareStr(joinedComment(w, a), joinedComment(w, b)))

(***************************************************************************)
(* options.go: ignore prefixes and numeric tokens                          *)
(***************************************************************************)
\* func (opts blockOptions) removeIgnorePrefix(s string) (string, bool)
RECURSIVE removeIgnorePrefixFrom(_, _, _)
removeIgnorePrefixFrom(prefixes, k, s) ==
  IF k > Len(prefixes) THEN s
  ELSE IF HasPrefix(TrimLeftSpace(s), prefixes[k]) THEN RemoveFirst(s, prefixes[k])
  ELSE removeIgnorePrefixFrom(prefixes, k + 1, s)

removeIgnorePrefix(opts, s) == removeIgnorePrefixFrom(opts.IgnorePrefixes, 1, s)

IsDigit(c) == c \in 48..57

\* the maximal run of digits (d = TRUE) or non-digits (d = FALSE) at the head of s
RECURSIVE runLen(_, _)
runLen(s, d) == IF Len(s) > 0 /\ (IsDigit(s[1]) = d) THEN 1 + runLen(Tail(s), d) ELSE 0

\* big.Int.SetString: the value of a digit run is the run without leading zeros
RECURSIVE stripZeros(_)
stripZeros(ds) == IF Len(ds) > 1 /\ ds[1] = 48 THEN stripZeros(Tail(ds)) ELSE ds

\* mixedNumberPattern.FindAllStringSubmatch: the runs of s, digits or not
RECURSIVE numericRuns(_)
numericRuns(s) ==
  IF Len(s) = 0 THEN <<>>
  ELSE LET d == IsDigit(s[1])
           n == runLen(s, d)
       IN <<[num |-> d, text |-> SubSeq(s, 1, n)]>> \o numericRuns(SubSeq(s, n + 1, Len(s)))

\* func (opts blockOptions) maybeParseNumeric(s string) numericTokens
\* The tokens are kept interleaved: t.s[0], t.i[0], t.s[1], t.i[1], ...
maybeParseNumeric(opts, s) ==
  IF ~opts.Numeric THEN <<s>>
  ELSE With(numericRuns(s), LAMBDA runs :
       With([k \in 1..Len(runs) |-> IF runs[k].num THEN stripZeros(runs[k].text) ELSE runs[k].text],
            LAMBDA toks :
         IF Len(runs) > 0 /\ runs[1].num THEN << <<>> >> \o toks ELSE toks))

\* a comparison of digit runs by their characters
bigCmpLexical(a, b) == CompareStr(a, b)

\* (*big.Int).Cmp on digit strings without leading zeros
bigCmp(a, b) ==
  IF Len(a) < Len(b) THEN -1
  ELSE IF Len(a) > Len(b) THEN 1
  ELSE CompareStr(a, b)

\* func (t numericTokens) compare(o numericTokens) int
RECURSIVE numericCompareFrom(_, _, _)
numericCompareFrom(t, o, i) ==
  IF i >= Min(Len(t), Len(o)) THEN Len(t) - Len(o)
  ELSE LET c == IF i % 2 = 0 THEN CompareStr(t[i + 1], o[i + 1]) ELSE bigCmp(t[i + 1], o[i + 1])
       IN IF c # 0 THEN c ELSE numericCompareFrom(t, o, i + 1)

numericCompare(t, o) == numericCompareFrom(t, o, 0)

(***************************************************************************)
(* block.go: lessFn                                                        *)
(***************************************************************************)
\* commentOnlyBlock
commentOnlyKey(lg) == IF numLines(lg) > 0 THEN 0 ELSE 1

\* prefixWeights after slices.SortStableFunc by descending prefix
RECURSIVE insertWeight(_, _)
insertWeight(sorted, pw) ==
  IF Len(sorted) = 0 THEN <<pw>>
  ELSE IF CompareStr(sorted[Len(sorted)].prefix, pw.prefix) >= 0 THEN Append(sorted, pw)
  ELSE Append(insertWeight(SubSeq(sorted, 1, Len(sorted) - 1), pw), sorted[Len(sorted)])

RECURSIVE sortWeights(_)
sortWeights(pws) ==
  IF Len(pws) = 0 THEN <<>>
  ELSE insertWeight(sortWeights(SubSeq(pws, 1, Len(pws) - 1)), pws[Len(pws)])

\* prefixWeights in the configured order, without the sort by descending prefix
prefixWeightsUnsorted(opts) ==
  [i \in 1..Len(opts.PrefixOrder) |->
     [prefix |-> opts.PrefixOrder[i], weight |-> (i - 1) - Len(opts.PrefixOrder)]]

prefixWeights(opts) ==
  sortWeights([i \in 1..Len(opts.PrefixOrder) |->
                 [prefix |-> opts.PrefixOrder[i], weight |-> (i - 1) - Len(opts.PrefixOrder)]])

RECURSIVE prefixWeightFrom(_, _, _, _)
prefixWeightFrom(pws, k, w, lg) ==
  IF k > Len(pws) THEN 0
  ELSE IF lgHasPrefix(w, lg, pws[k].prefix) THEN pws[k].weight
  ELSE prefixWeightFrom(pws, k + 1, w, lg)

\* prefixOrder
prefixOrderKey(opts, w, lg) == prefixWeightFrom(prefixWeights(opts), 1, w, lg)

\* transformOrder
transformKey(opts, w, lg) ==
  With(removeIgnorePrefix(opts, joinedLines(w, lg)), LAMBDA l1 :
    maybeParseNumeric(opts, IF ~opts.CaseSensitive THEN ToLower(l1) ELSE l1))

\* func (b block) lessFn() func(a, b lineGroup) int
lessFn(opts, w, a, b) ==
  With(commentOnlyKey(a) - commentOnlyKey(b), LAMBDA c1 :
  With(prefixOrderKey(opts, w, a) - prefixOrderKey(opts, w, b), LAMBDA c2 :
  With(numericCompare(transformKey(opts, w, a), transformKey(opts, w, b)), LAMBDA c3 :
    IF c1 # 0 THEN c1
    ELSE IF c2 # 0 THEN c2
    ELSE IF c3 # 0 THEN c3
    ELSE lgLess(w, a, b))))

(***************************************************************************)
(* block.go: sorted                                                        *)
(***************************************************************************)
\* func isNewline(lg lineGroup) bool
isNewline(w, lg) == numComment(lg) = 0 /\ numLines(lg) = 1 /\ IsBlank(w[lg.lines.end])

\* func isNewlineSeparated(gs []lineGroup) bool
isNewlineSeparated(w, gs) ==
  IF Len(gs) = 0 THEN TRUE
  ELSE IF Len(gs) % 2 # 1 THEN FALSE
  ELSE /\ \A i \in 0..((Len(gs) - 1) \div 2 - 1) :
            ~(isNewline(w, gs[2 * i + 1]) \/ ~isNewline(w, gs[2 * i + 2]))
       /\ ~isNewline(w, gs[Len(gs)])

\* func allHaveSuffix(lgs []lineGroup, s string) bool
allHaveSuffix(w, lgs, s) == \A k \in 1..Len(lgs) : hasSuffix(w, lgs[k], s)

\* the elements of gs that satisfy keep, in order
RECURSIVE dataGroupsOf(_)
dataGroupsOf(gs) ==
  IF Len(gs) = 0 THEN <<>>
  ELSE (IF numLines(gs[1]) > 0 THEN <<gs[1]>> ELSE <<>>) \o dataGroupsOf(Tail(gs))

\* func handleTrailingComma(lgs []lineGroup) (trimTrailingComma func([]lineGroup))
\* returns the array after the append and whether the returned closure trims
handleTrailingComma(w, lgs) ==
  LET dataGroups == dataGroupsOf(lgs)
      n == Len(dataGroups)
  IN IF n > 1 /\ allHaveSuffix(w, SubSeq(dataGroups, 1, n - 1), <<COMMA>>)
            /\ ~hasSuffix(w, dataGroups[n], <<COMMA>>)
     THEN [w |-> lgAppend(w, dataGroups[n], <<COMMA>>), trims |-> TRUE]
     ELSE [w |-> w, trims |-> FALSE]

\* the closure of handleTrailingComma with the loop running from the front
trimFirst(w, lgs, i) ==
  LET data == { k \in 1..i : numLines(lgs[k]) > 0 } IN
    IF data = {} THEN w
    ELSE lgTrimSuffix(w, lgs[CHOOSE k \in data : \A l \in data : k <= l], <<COMMA>>)

\* the closure returned by handleTrailingComma
RECURSIVE trimLast(_, _, _)
trimLast(w, lgs, i) ==
  IF i < 1 THEN w
  ELSE IF numLines(lgs[i]) > 0 THEN lgTrimSuffix(w, lgs[i], <<COMMA>>)
  ELSE trimLast(w, lgs, i - 1)

trimTrailingComma(trims, w, lgs) == IF trims THEN trimLast(w, lgs, Len(lgs)) ELSE w

\* every group is kept, the newline groups too
keepNewlines(w, gs) == gs

\* the loop that drops the newline groups
RECURSIVE withoutNewlines(_, _)
withoutNewlines(w, gs) ==
  IF Len(gs) = 0 THEN <<>>
  ELSE (IF isNewline(w, gs[1]) THEN <<>> ELSE <<gs[1]>>) \o withoutNewlines(w, Tail(gs))

\* a key of the seen map that leaves the comment out
dedupKeyOfContent(w, lg) == joinedLines(w, lg)

\* the key of the seen map
dedupKey(w, lg) == joinedLines(w, lg) \o <<LF>> \o Join(groupComment(w, lg), <<LF>>)

\* the loop that drops the duplicates
RECURSIVE dedupFrom(_, _, _, _)
dedupFrom(w, gs, k, acc) ==
  IF k > Len(gs) THEN acc
  ELSE LET key == dedupKey(w, gs[k]) IN
       IF key \notin acc.seen
       THEN dedupFrom(w, gs, k + 1, [acc EXCEPT !.seen = @ \cup {key}, !.deduped = Append(@, gs[k])])
       ELSE dedupFrom(w, gs, k + 1, [acc EXCEPT !.removedDuplicate = TRUE])

dedup(w, gs) == dedupFrom(w, gs, 1, [seen |-> {}, deduped |-> <<>>, removedDuplicate |-> FALSE])

\* IsSortedFunc that starts at the third group
IsSortedFuncFromThird(opts, w, gs) ==
  \A i \in 3..Len(gs) : ~(lessFn(opts, w, gs[i], gs[i - 1]) < 0)

\* slices.IsSortedFunc(groups, less)
IsSortedFunc(opts, w, gs) ==
  \A i \in 2..Len(gs) : ~(lessFn(opts, w, gs[i], gs[i - 1]) < 0)

\* insertGroup with the operands of the comparison exchanged
RECURSIVE insertGroupSwapped(_, _, _, _)
insertGroupSwapped(opts, w, sorted, x) ==
  IF Len(sorted) = 0 THEN <<x>>
  ELSE IF lessFn(opts, w, sorted[Len(sorted)], x) < 0
       THEN Append(insertGroupSwapped(opts, w, SubSeq(sorted, 1, Len(sorted) - 1), x), sorted[Len(sorted)])
       ELSE Append(sorted, x)

\* slices.SortStableFunc(groups, less): insertion sort, as for up to 20 elements
RECURSIVE insertGroup(_, _, _, _)
insertGroup(opts, w, sorted, x) ==
  IF Len(sorted) = 0 THEN <<x>>
  ELSE IF lessFn(opts, w, x, sorted[Len(sorted)]) < 0
       THEN Append(insertGroup(opts, w, SubSeq(sorted, 1, Len(sorted) - 1), x), sorted[Len(sorted)])
       ELSE Append(sorted, x)

RECURSIVE SortStableFunc(_, _, _)
SortStableFunc(opts, w, gs) ==
  IF Len(gs) = 0 THEN <<>>
  ELSE insertGroup(opts, w, SortStableFunc(opts, w, SubSeq(gs, 1, Len(gs) - 1)), gs[Len(gs)])

\* the final loops: separators between the groups, then allLines of each
RECURSIVE assemble(_, _, _, _)
assemble(w, gs, k, sep) ==
  IF k > Len(gs) THEN <<>>
  ELSE (IF sep /\ k > 1 THEN << <<>> >> ELSE <<>>) \o allLines(w, gs[k]) \o assemble(w, gs, k + 1, sep)

\* lines[lo:hi] of the slice b.lines, whose capacity runs to the end of buf
sliceOK(b, buf, lo, hi) == 0 <= lo /\ lo <= hi /\ hi <= Len(buf) - b.lo

sliceLines(b, buf, lo, hi) == SubSeq(buf, b.lo + lo + 1, b.lo + hi)

\* for i, nested := range b.nestedBlocks { ... } that builds lineChunks
RECURSIVE rebuildFrom(_, _, _, _, _)
rebuildFrom(b, buf, results, i, acc) ==
  IF i > Len(b.nestedBlocks) \/ acc.panicked THEN acc
  ELSE IF results[i].alreadySorted THEN rebuildFrom(b, buf, results, i + 1, acc)
  ELSE LET nested == b.nestedBlocks[i]
           offset == nested.start - b.start
       IN IF ~sliceOK(b, buf, acc.cursor, offset)
          THEN [acc EXCEPT !.panicked = TRUE]
          ELSE rebuildFrom(b, buf, results, i + 1,
                 [acc EXCEPT !.lines = @ \o sliceLines(b, buf, acc.cursor, offset) \o results[i].lines,
                             !.cursor = offset + (nested.hi - nested.lo)])

rebuild(b, buf, results) ==
  With(rebuildFrom(b, buf, results, 1, [lines |-> <<>>, cursor |-> 0, panicked |-> FALSE]),
       LAMBDA acc :
    IF acc.panicked THEN acc
    ELSE IF acc.cursor > b.hi - b.lo THEN [acc EXCEPT !.panicked = TRUE]   \* lines[cursor:]
    ELSE [acc EXCEPT !.lines = @ \o sliceLines(b, buf, acc.cursor, b.hi - b.lo)])

panicResult(buf) ==
  [lines |-> <<>>, alreadySorted |-> FALSE, buf |-> buf, panicked |-> TRUE]

\* func (b block) sorted() (sorted []string, alreadySorted bool)
\* buf is the backing array of the file's lines, which b.lines is a slice of;
\* the result carries the array as the call leaves it.
RECURSIVE sorted(_, _)
RECURSIVE sortNested(_, _, _, _)
sortNested(bs, k, buf, results) ==
  IF k > Len(bs) THEN [results |-> results, buf |-> buf, panicked |-> FALSE]
  ELSE With(sorted(bs[k], buf), LAMBDA r :
       IF r.panicked THEN [results |-> results, buf |-> r.buf, panicked |-> TRUE]
       ELSE sortNested(bs, k + 1, r.buf,
                       Append(results, [lines |-> r.lines, alreadySorted |-> r.alreadySorted])))

\* the values sorted() holds when it reaches its alreadySorted test
sortedLocals(b, buf) ==
  With(sortNested(b.nestedBlocks, 1, buf, <<>>), LAMBDA nr :
  IF nr.panicked THEN [panicked |-> TRUE, buf |-> nr.buf]
  ELSE
  With(\A k \in 1..Len(nr.results) : nr.results[k].alreadySorted, LAMBDA childrenSorted :
  With(IF childrenSorted
       THEN [lines |-> SubSeq(nr.buf, b.lo + 1, b.hi), panicked |-> FALSE]
       ELSE rebuild(b, nr.buf, nr.results), LAMBDA rb :
  IF rb.panicked THEN [panicked |-> TRUE, buf |-> nr.buf]
  ELSE
  With(groupLines(rb.lines, b.opts), LAMBDA gl :
  IF gl.panicked THEN [panicked |-> TRUE, buf |-> nr.buf]
  ELSE
  With(handleTrailingComma(rb.lines, gl.groups), LAMBDA tc :
  With(IF b.opts.NewlineSeparated THEN withoutNewlines(tc.w, gl.groups) ELSE gl.groups, LAMBDA g1 :
  With(IF b.opts.RemoveDuplicates THEN dedup(tc.w, g1)
       ELSE [deduped |-> g1, removedDuplicate |-> FALSE], LAMBDA dd :
    [panicked |-> FALSE, buf |-> nr.buf, childrenSorted |-> childrenSorted,
     w0 |-> rb.lines, allGroups |-> gl.groups, trims |-> tc.trims, w1 |-> tc.w,
     wasNewlineSeparated |->
       IF b.opts.NewlineSeparated THEN isNewlineSeparated(tc.w, gl.groups) ELSE TRUE,
     removedDuplicate |-> dd.removedDuplicate, groups |-> dd.deduped])))))))

sorted(b, buf) ==
  With(sortedLocals(b, buf), LAMBDA v :
  IF v.panicked THEN panicResult(v.buf)
  ELSE
  With(v.childrenSorted /\ v.wasNewlineSeparated /\ ~v.removedDuplicate
       /\ IsSortedFunc(b.opts, v.w1, v.groups), LAMBDA already :
  With(IF already THEN v.groups ELSE SortStableFunc(b.opts, v.w1, v.groups), LAMBDA g3 :
  With(trimTrailingComma(v.trims, v.w1, g3), LAMBDA w2 :
    [lines |-> IF already THEN w2 ELSE assemble(w2, g3, 1, b.opts.NewlineSeparated),
     alreadySorted |-> already,
     \* the writes through the groups reach the file's array when lines is b.lines
     buf |-> IF v.childrenSorted
             THEN SubSeq(v.buf, 1, b.lo) \o w2 \o SubSeq(v.buf, b.hi + 1, Len(v.buf))
             ELSE v.buf,
     panicked |-> FALSE]))))

(***************************************************************************)
(* keep_sorted.go: findings, Findings, Fix                                 *)
(***************************************************************************)
\* incompleteFindings that names the side it found, not the side that is missing
incompleteFindingsSameSide(ibs) ==
  [k \in 1..Len(ibs) |->
     finding(ibs[k].line, ibs[k].line,
             errorMissingDirective(IF ibs[k].dir = "startDirective" THEN "start" ELSE "end"),
             <<replacement(ibs[k].line, ibs[k].line, <<>>)>>)]

\* for _, ib := range incompleteBlocks { ... }
incompleteFindings(ibs) ==
  [k \in 1..Len(ibs) |->
     finding(ibs[k].line, ibs[k].line,
             errorMissingDirective(IF ibs[k].dir = "startDirective" THEN "end" ELSE "start"),
             <<replacement(ibs[k].line, ibs[k].line, <<>>)>>)]

\* for _, b := range blocks { if s, alreadySorted := b.sorted(); !alreadySorted { ... } }
RECURSIVE blockFindings(_, _, _, _, _, _)
blockFindings(blocks, k, buf, ending, automatic, acc) ==
  IF k > Len(blocks) THEN [fs |-> acc, buf |-> buf, panicked |-> FALSE]
  ELSE With(blocks[k], LAMBDA b :
       With(sorted(b, buf), LAMBDA r :
         IF r.panicked THEN [fs |-> acc, buf |-> r.buf, panicked |-> TRUE]
         ELSE IF r.alreadySorted THEN blockFindings(blocks, k + 1, r.buf, ending, automatic, acc)
         ELSE blockFindings(blocks, k + 1, r.buf, ending, automatic,
                Append(acc, finding(b.start + 1, b.end - 1, errorUnordered,
                  << [replacement(b.start + 1, b.end - 1, linesToString(r.lines, ending))
                        EXCEPT !.automatic = automatic] >>)))))

\* func startLine(f *Finding) int
startLine(f) == f.Lines.Start

\* slices.SortFunc(fs, ...) by startLine; insertion sort, as for up to 12 elements
RECURSIVE insertFinding(_, _)
insertFinding(sortedFs, f) ==
  IF Len(sortedFs) = 0 THEN <<f>>
  ELSE IF startLine(f) < startLine(sortedFs[Len(sortedFs)])
       THEN Append(insertFinding(SubSeq(sortedFs, 1, Len(sortedFs) - 1), f), sortedFs[Len(sortedFs)])
       ELSE Append(sortedFs, f)

RECURSIVE sortFindings(_)
sortFindings(fs) ==
  IF Len(fs) = 0 THEN <<>>
  ELSE insertFinding(sortFindings(SubSeq(fs, 1, Len(fs) - 1)), fs[Len(fs)])

\* func (f *Fixer) findings(filename, contents []string, ending, modifiedLines) []*Finding
\* buf is the contents array as the call leaves it
findings(ls, ending, modifiedLines, defaults) ==
  With(newBlocks(ls, 1, modifiedLines, defaults), LAMBDA nb :
  IF nb.panicked THEN [fs |-> <<>>, buf |-> ls, panicked |-> TRUE]
  ELSE
  With(blockFindings(nb.blocks, 1, ls, ending, Len(nb.incompleteBlocks) = 0, <<>>), LAMBDA bf :
    IF bf.panicked THEN [fs |-> <<>>, buf |-> bf.buf, panicked |-> TRUE]
    ELSE [fs |-> sortFindings(nb.warnings \o incompleteFindings(nb.incompleteBlocks) \o bf.fs),
          buf |-> bf.buf, panicked |-> FALSE]))

\* the automatic fix of a finding, as a sequence of at most one element
automaticFixes(f) == SelectSeq(f.Fixes, LAMBDA x : x.automatic)

\* for _, finding := range findings { ... } of Fix
RECURSIVE applyFixes(_, _, _, _, _)
applyFixes(fs, k, buf, ending, acc) ==
  IF k > Len(fs) \/ acc.panicked THEN acc
  ELSE LET auto == automaticFixes(fs[k]) IN
       IF Len(auto) > 1 THEN [acc EXCEPT !.panicked = TRUE]
       ELSE IF Len(auto) = 0
         THEN applyFixes(fs, k + 1, buf, ending, [acc EXCEPT !.warnings = Append(@, fs[k])])
       ELSE LET repl == auto[1].Replacements[1]
                endLine == repl.Lines.Start
            IN IF ~(0 <= acc.startLine - 1 /\ acc.startLine - 1 <= endLine - 1 /\ endLine - 1 <= Len(buf))
               THEN [acc EXCEPT !.panicked = TRUE]
               ELSE applyFixes(fs, k + 1, buf, ending,
                      [acc EXCEPT !.s = @ \o linesToString(SubSeq(buf, acc.startLine, endLine - 1), ending)
                                        \o repl.NewContent,
                                  !.startLine = repl.Lines.End + 1])

\* func (f *Fixer) Fix(filename, contents string, modifiedLines []LineRange)
Fix(text, modifiedLines, defaults) ==
  With(lineEnding(text), LAMBDA ending :
  With(findings(lines(text), ending, modifiedLines, defaults), LAMBDA r :
  IF r.panicked THEN [fixed |-> <<>>, alreadyCorrect |-> FALSE, warnings |-> <<>>, panicked |-> TRUE]
  ELSE IF Len(r.fs) = 0
    THEN [fixed |-> text, alreadyCorrect |-> TRUE, warnings |-> <<>>, panicked |-> FALSE]
  ELSE
  With(applyFixes(r.fs, 1, r.buf, ending,
                  [s |-> <<>>, startLine |-> 1, warnings |-> <<>>, panicked |-> FALSE]), LAMBDA a :
    IF a.panicked \/ a.startLine - 1 > Len(r.buf)
      THEN [fixed |-> <<>>, alreadyCorrect |-> FALSE, warnings |-> <<>>, panicked |-> TRUE]
    ELSE [fixed |-> a.s \o Join(SubSeq(r.buf, a.startLine, Len(r.buf)), ending),
          alreadyCorrect |-> FALSE, warnings |-> a.warnings, panicked |-> FALSE])))

\* func (f *Fixer) Findings(filename, contents string, modifiedLines []LineRange) []*Finding
Findings(text, modifiedLines, defaults) ==
  findings(lines(text), lineEnding(text), modifiedLines, defaults)

(***************************************************************************)
(* The program as a state machine: a file is given, and Findings, Fix      *)
(* (once, then again on its own output) or sorted() of one of the file's   *)
(* blocks is called on it.                                                 *)
(***************************************************************************)
VARIABLES
  contents,        \* the file text handed to Findings / Fix
  pc,              \* where the calls stand: "init", then "findings", "fixed", ...
  fs,              \* the findings returned by Findings
  after,           \* the array of the file's lines as the call left it
  fixed,           \* the text returned by Fix
  alreadyCorrect,  \* the flag returned by Fix
  warnings,        \* the warnings returned by Fix
  refixed,         \* the text returned by Fix on the text Fix returned
  blk,             \* the block sorted() was called on
  res,             \* what sorted() returned
  fixerDefaults,   \* the default options that parseBlockOptions is given
  numParsed,       \* the number of regions whose options were parsed
  got,             \* what parseBlockOptions returned last
  gotString,       \* got.String()
  got2             \* what parseBlockOptions returned for gotString

optionVars == <<fixerDefaults, numParsed, got, gotString, got2>>

vars ==
  <<contents, pc, fs, after, fixed, alreadyCorrect, warnings, refixed, blk, res, optionVars>>

MaxLines == 5

\* lines of the files
LStart == <<SLASH, SLASH, StartTok>>
LEnd == <<SLASH, SLASH, EndTok>>
LStartWith(opt) == LStart \o <<SP>> \o opt

Endings == { <<LF>>, <<CR, LF>>, <<CR>> }

FilesOver(universe, endings) ==
  { Join(f, e) : f \in UNION { [1..n -> universe] : n \in 0..MaxLines }, e \in endings }

InitOptions(files, defaultsGiven) ==
  /\ contents \in files
  /\ fixerDefaults \in defaultsGiven
  /\ numParsed = 0
  /\ got = <<>>
  /\ gotString = <<>>
  /\ got2 = <<>>
  /\ pc = "init"
  /\ fs = <<>>
  /\ after = <<>>
  /\ fixed = <<>>
  /\ alreadyCorrect = FALSE
  /\ warnings = <<>>
  /\ refixed = <<>>
  /\ blk = <<>>
  /\ res = <<>>

InitWith(files) == InitOptions(files, {defaultOptions})

\* every block of the forest below a list of blocks
RECURSIVE AllBlocks(_)
AllBlocks(bs) ==
  UNION { {bs[k]} \cup AllBlocks(bs[k].nestedBlocks) : k \in 1..Len(bs) }

\* New(id, defaultOptions).Findings(filename, contents, nil)
CallFindings ==
  /\ pc = "init"
  /\ \E r \in {Findings(contents, NoModifiedLines, defaultOptions)} :
       /\ pc' = IF r.panicked THEN "panic" ELSE "findings"
       /\ fs' = r.fs
       /\ after' = r.buf
  /\ UNCHANGED <<optionVars, contents, fixed, alreadyCorrect, warnings, refixed, blk, res>>

\* New(id, defaultOptions).Fix(filename, contents, nil)
CallFix ==
  /\ pc = "init"
  /\ \E r \in {Fix(contents, NoModifiedLines, defaultOptions)} :
       /\ pc' = IF r.panicked THEN "panic" ELSE "fixed"
       /\ fixed' = r.fixed
       /\ alreadyCorrect' = r.alreadyCorrect
       /\ warnings' = r.warnings
  /\ UNCHANGED <<optionVars, contents, fs, after, refixed, blk, res>>

\* Fix on the text that Fix returned
CallFixAgain ==
  /\ pc = "fixed"
  /\ \E r \in {Fix(fixed, NoModifiedLines, defaultOptions)} :
       /\ pc' = IF r.panicked THEN "panic" ELSE "refixed"
       /\ refixed' = r.fixed
  /\ UNCHANGED <<optionVars, contents, fs, after, fixed, alreadyCorrect, warnings, blk, res>>

\* b.sorted() for a block b that newBlocks finds in the file
CallSorted ==
  /\ pc = "init"
  /\ \E nb \in {newBlocks(lines(contents), 1, NoModifiedLines, defaultOptions)} :
       /\ ~nb.panicked
       /\ \E b \in AllBlocks(nb.blocks) :
            \E r \in {sorted(b, lines(contents))} :
              /\ pc' = IF r.panicked THEN "panic" ELSE "sorted"
              /\ blk' = b
              /\ res' = r
              /\ after' = r.buf
  /\ UNCHANGED <<optionVars, contents, fs, fixed, alreadyCorrect, warnings, refixed>>

\* the start lines of the regions of ls in the order in which newBlocks
\* reaches parseBlockOptions for them: a region's options are parsed when its
\* end directive is met
RECURSIVE parseCalls(_, _, _)
parseCalls(ls, i, starts) ==
  IF i > Len(ls) THEN <<>>
  ELSE IF Contains(ls[i], <<StartTok>>) THEN parseCalls(ls, i + 1, Append(starts, ls[i]))
  ELSE IF Contains(ls[i], <<EndTok>>) /\ Len(starts) > 0
    THEN <<starts[Len(starts)]>> \o parseCalls(ls, i + 1, SubSeq(starts, 1, Len(starts) - 1))
  ELSE parseCalls(ls, i + 1, starts)

\* commentMarker, options, _ := strings.Cut(start.line, f.startDirective)
commentMarkerOf(line) == SubSeq(line, 1, Index(line, <<StartTok>>))

optionsOf(line) == SubSeq(line, Index(line, <<StartTok>>) + 2, Len(line))

\* parseBlockOptions(commentMarker, options, f.defaultOptions) for the next
\* region of the file
CallParseBlockOptions ==
  /\ pc \in {"init", "parsed"}
  /\ numParsed < Len(parseCalls(lines(contents), 1, <<>>))
  /\ \E line \in {parseCalls(lines(contents), 1, <<>>)[numParsed + 1]} :
       \E r \in {parseBlockOptions(commentMarkerOf(line), optionsOf(line), fixerDefaults)} :
         /\ got' = [opts |-> r.opts, warns |-> r.warns]
         /\ fixerDefaults' = r.defaults
  /\ numParsed' = numParsed + 1
  /\ pc' = "parsed"
  /\ UNCHANGED <<contents, fs, after, fixed, alreadyCorrect, warnings, refixed, blk, res,
                 gotString, got2>>

\* s := got.String()
CallString ==
  /\ pc = "parsed"
  /\ gotString' = String(got.opts)
  /\ pc' = "printed"
  /\ UNCHANGED <<contents, fs, after, fixed, alreadyCorrect, warnings, refixed, blk, res,
                 fixerDefaults, numParsed, got, got2>>

\* got2, warns := parseBlockOptions(commentMarker, s, defaultOptions)
CallParseString ==
  /\ pc = "printed"
  /\ \E line \in {parseCalls(lines(contents), 1, <<>>)[numParsed]} :
       \E r \in {parseBlockOptions(commentMarkerOf(line), gotString, fixerDefaults)} :
         /\ got2' = [opts |-> r.opts, warns |-> r.warns]
         /\ fixerDefaults' = r.defaults
  /\ pc' = "reparsed"
  /\ UNCHANGED <<contents, fs, after, fixed, alreadyCorrect, warnings, refixed, blk, res,
                 numParsed, got, gotString>>

Next ==
  \/ CallFindings \/ CallFix \/ CallFixAgain \/ CallSorted
  \/ CallParseBlockOptions \/ CallString \/ CallParseString

\* files of plain items, with commas, blank lines and duplicate handling
BaseLines == { LStart, LEnd, <<98>>, <<97, COMMA>>, <<97>>, <<>> }

Init == InitWith(FilesOver(BaseLines, {<<LF>>}))

Spec == Init /\ [][Next]_vars

(***************************************************************************)
(* C1: Fix(Fix(x)) = Fix(x)                                                *)
(***************************************************************************)
\* files whose items differ in indentation
IndentLines == { LStart, LEnd, <<COMMA>>, <<SP, SP, COMMA, BANG>>, <<COMMA, 43>> }

InitIndent == InitWith(FilesOver(IndentLines, {<<LF>>}))

SpecIndent == InitIndent /\ [][Next]_vars

\* C1: whenever Fix has run on a file and then again on the text it returned,
\* the second run returns that text unchanged.
C1_FixIdempotent == pc = "refixed" => refixed = fixed

(***************************************************************************)
(* Files that hold one region: a start directive with at most one option,  *)
(* some items, an end directive.                                           *)
(***************************************************************************)
MaxItems == 3

Items == { <<98>>, <<97, COMMA>>, <<97>>, <<SP, 97>>, <<>>, <<SLASH, SLASH>> }

Starts ==
  {LStart} \cup { LStartWith(o) : o \in {OptGroupNo, OptNewlineSep, OptRemoveDupNo, OptSkip1, OptStickyNo} }

RegionFiles ==
  { Join(<<s>> \o body \o <<LEnd>>, <<LF>>) :
      s \in Starts, body \in UNION { [1..n -> Items] : n \in 0..MaxItems } }

(***************************************************************************)
(* Files that hold a region with a region nested in it, items before it    *)
(* and, after it, items or a second nested region.                         *)
(***************************************************************************)
MaxInner == 3

InnerItems == { <<98>>, <<97>> }

OuterStarts == { LStart, LStartWith(OptGroupNo), LStartWith(OptSkip1), LStartWith(OptRemoveDupNo) }

InnerStarts == { LStart, LStartWith(OptNewlineSep) }

Before == { <<>>, << <<99>> >>, << <<99, COMMA>> >>, << <<97>> >> }

After ==
  { <<>>, << <<97>> >>, << <<99>> >>, <<LStart, <<98>>, <<97>>, LEnd>>, <<LStart, <<98>>, LEnd>> }

NestFiles ==
  { Join(<<so>> \o pre \o <<si>> \o inner \o <<LEnd>> \o post \o <<LEnd>>, <<LF>>) :
      so \in OuterStarts, si \in InnerStarts, pre \in Before, post \in After,
      inner \in UNION { [1..n -> InnerItems] : n \in 0..MaxInner } }

InitRegion == InitWith(RegionFiles \cup NestFiles)

SpecRegion == InitRegion /\ [][Next]_vars

\* the values sorted() held on the block of the last CallSorted
Locals == sortedLocals(blk, lines(contents))

\* the place of group i in the stable order of gs under the comparator over w
rankOf(opts, w, gs, i) ==
  1 + Cardinality({ j \in 1..Len(gs) :
        LET c == lessFn(opts, w, gs[j], gs[i]) IN c < 0 \/ (c = 0 /\ j < i) })

\* p orders gs: a permutation, adjacent pairs non-decreasing, equal groups in input order
IsStableOrder(opts, w, gs, p) ==
  /\ Len(p) = Len(gs)
  /\ { p[k] : k \in 1..Len(p) } = 1..Len(gs)
  /\ \A k \in 1..(Len(p) - 1) : lessFn(opts, w, gs[p[k]], gs[p[k + 1]]) <= 0
  /\ \A k, l \in 1..Len(p) :
       k < l /\ lessFn(opts, w, gs[p[k]], gs[p[l]]) = 0 => p[k] < p[l]

\* the groups of gs in the order p, each as its comment lines then its content
\* lines over w; with sep, one empty line between adjacent groups
RECURSIVE linesInOrder(_, _, _, _, _)
linesInOrder(w, gs, p, k, sep) ==
  IF k > Len(p) THEN <<>>
  ELSE (IF sep /\ k > 1 THEN << <<>> >> ELSE <<>>)
       \o groupComment(w, gs[p[k]]) \o groupContent(w, gs[p[k]])
       \o linesInOrder(w, gs, p, k + 1, sep)

\* w with one trailing comma taken off the last line of the last group, in the
\* order p, that has content lines
commaOffLast(w, gs, p) ==
  LET data == { k \in 1..Len(p) : numLines(gs[p[k]]) > 0 } IN
    IF data = {} THEN w
    ELSE LET k == CHOOSE x \in data : \A y \in data : y <= x
             at == gs[p[k]].lines.end
         IN [w EXCEPT ![at] = IF HasSuffix(@, <<COMMA>>) THEN SubSeq(@, 1, Len(@) - 1) ELSE @]

\* the groups of gs by rank, when the ranks are a permutation
byRank(opts, w, gs) ==
  [k \in 1..Len(gs) |-> CHOOSE i \in 1..Len(gs) : rankOf(opts, w, gs, i) = k]

\* out is the stable sort of gs under the comparator over w; with trim, the
\* group that ends up last gives up its trailing comma
IsStableSortOf(opts, w, gs, trim, sep, out) ==
  /\ \A k \in 1..Len(gs) : \E i \in 1..Len(gs) : rankOf(opts, w, gs, i) = k
  /\ LET p == byRank(opts, w, gs) IN
       /\ IsStableOrder(opts, w, gs, p)
       /\ out = linesInOrder(IF trim THEN commaOffLast(w, gs, p) ELSE w, gs, p, 1, sep)

\* the retained groups of the region as its lines give them: the groups of
\* groupLines, without the blank-line groups under newline_separated and
\* without the later copies of a duplicate
retainedGroups(opts, w) ==
  LET gs == groupLines(w, opts).groups
      g1 == IF opts.NewlineSeparated THEN withoutNewlines(w, gs) ELSE gs
  IN IF opts.RemoveDuplicates THEN dedup(w, g1).deduped ELSE g1

\* C2 as claimed: when sorted() reports a region as not already sorted, the
\* lines it returns are the stable sort of the region's retained groups, each
\* group once as its comment lines followed by its content lines.
C2_StableSortOfRegionLines ==
  pc = "sorted" /\ ~res.alreadySorted =>
    IsStableSortOf(blk.opts, Locals.w0, retainedGroups(blk.opts, Locals.w0), FALSE, FALSE, res.lines)

\* C2: when sorted() reports a region as not already sorted, the lines it
\* returns are the stable sort, under the comparator, of the retained groups
\* taken after the trailing-comma normalisation: every retained group once, as
\* its comment lines then its content lines, adjacent groups non-decreasing,
\* equal groups in input order; the comma the normalisation added is taken off
\* the group that ends up last, and under newline_separated one empty line
\* stands between adjacent groups.
C2_StableSort ==
  pc = "sorted" /\ ~res.alreadySorted =>
    IsStableSortOf(blk.opts, Locals.w1, Locals.groups, Locals.trims,
                   blk.opts.NewlineSeparated, res.lines)

\* a region of three retained groups, two of which compare equal and differ
\* as lines, that sorted() had to reorder
C2_Witness ==
  /\ pc = "sorted" /\ ~res.alreadySorted
  /\ Len(Locals.groups) >= 3
  /\ res.lines # sliceLines(blk, lines(contents), 0, blk.hi - blk.lo)
  /\ \E k, l \in 1..Len(Locals.groups) :
       /\ k < l
       /\ lessFn(blk.opts, Locals.w1, Locals.groups[k], Locals.groups[l]) = 0
       /\ allLines(Locals.w1, Locals.groups[k]) # allLines(Locals.w1, Locals.groups[l])

(***************************************************************************)
(* C3: the already-sorted judgement                                        *)
(***************************************************************************)
\* the lines of block b in the file
regionLines(b) == sliceLines(b, lines(contents), 0, b.hi - b.lo)

\* no region directly nested in b is changed by its own sorted()
NoChildChanged(b) ==
  \A k \in 1..Len(b.nestedBlocks) : sorted(b.nestedBlocks[k], lines(contents)).alreadySorted

\* item groups and single blank lines alternate, an item group first and last
PatternHeld(w, gs) ==
  \/ Len(gs) = 0
  \/ /\ Len(gs) % 2 = 1
     /\ \A i \in 1..Len(gs) : isNewline(w, gs[i]) <=> i % 2 = 0

\* no two groups have the same joined content lines and the same comment lines
NoDuplicate(w, gs) ==
  \A i, j \in 1..Len(gs) :
    i < j => \/ joinedLines(w, gs[i]) # joinedLines(w, gs[j])
             \/ groupComment(w, gs[i]) # groupComment(w, gs[j])

\* every group is at most the group after it
NonDecreasing(opts, w, gs) ==
  \A i \in 1..(Len(gs) - 1) : lessFn(opts, w, gs[i], gs[i + 1]) <= 0

\* the four conditions, on the groups all of block b over the lines w
JudgedSorted(b, w, all) ==
  LET gs == IF b.opts.NewlineSeparated THEN SelectSeq(all, LAMBDA g : ~isNewline(w, g)) ELSE all
  IN /\ NoChildChanged(b)
     /\ b.opts.RemoveDuplicates => NoDuplicate(w, gs)
     /\ b.opts.NewlineSeparated => PatternHeld(w, all)
     /\ NonDecreasing(b.opts, w, gs)

\* the findings of fs that report block b as out of order
UnorderedFindings(found, b) ==
  { k \in 1..Len(found) : found[k].Message = errorUnordered /\ found[k].Lines.Start = b.start + 1 }

\* C3: sorted() reports alreadySorted exactly when no directly nested region
\* changed, no duplicate was removed, the newline-separation pattern (when
\* configured) held, and the groups (after the trailing-comma normalisation)
\* are non-decreasing under the comparator; it then returns the region's
\* original lines, and Findings has no finding for such a top-level region.
C3_AlreadySorted ==
  /\ pc = "sorted" =>
       /\ res.alreadySorted <=> JudgedSorted(blk, Locals.w1, Locals.allGroups)
       /\ res.alreadySorted => res.lines = regionLines(blk)
  /\ pc = "findings" =>
       LET nb == newBlocks(lines(contents), 1, NoModifiedLines, defaultOptions) IN
         \A k \in 1..Len(nb.blocks) :
           LET r == sorted(nb.blocks[k], lines(contents)) IN
             UnorderedFindings(fs, nb.blocks[k]) = {} <=> r.alreadySorted

\* C3 as claimed: sorted() reports alreadySorted, and returns the original
\* lines, exactly when no nested region changed, no duplicate was removed, the
\* newline-separation pattern held and the region's groups are non-decreasing
\* under the comparator.
C3_AlreadySortedOfRegionLines ==
  pc = "sorted" =>
    (res.alreadySorted /\ res.lines = regionLines(blk))
      <=> JudgedSorted(blk, Locals.w0, Locals.allGroups)

\* a region with a nested region and three groups, judged already sorted
C3_Witness ==
  /\ pc = "sorted" /\ res.alreadySorted
  /\ Len(blk.nestedBlocks) > 0
  /\ Len(Locals.groups) >= 3

(***************************************************************************)
(* C4, C5: regions nested in a region                                      *)
(***************************************************************************)
\* a region as its start directive line and its content lines
regionOf(ls, b, content) == [start |-> ls[b.start], content |-> content, end |-> ls[b.end]]

\* the regions directly nested in b, each with the content its own sorted() gives
correctedChildren(b) ==
  { regionOf(lines(contents), b.nestedBlocks[k], sorted(b.nestedBlocks[k], lines(contents)).lines) :
      k \in 1..Len(b.nestedBlocks) }

\* block discovery on the lines out, put between a start and an end directive
discovery(out) == newBlocks(<<LStart>> \o out \o <<LEnd>>, 1, NoModifiedLines, defaultOptions)

\* out holds whole regions only
wellNested(out) ==
  LET nb == discovery(out) IN
    ~nb.panicked /\ Len(nb.incompleteBlocks) = 0 /\ Len(nb.blocks) = 1

\* the regions that block discovery finds directly inside the lines out
discoveredChildren(out) ==
  LET ls == <<LStart>> \o out \o <<LEnd>>
      found == discovery(out).blocks[1].nestedBlocks
  IN { regionOf(ls, found[k], SubSeq(ls, found[k].lo + 1, found[k].hi)) : k \in 1..Len(found) }

\* a region without the text of its end directive line
withoutEnd(r) == [start |-> r.start, content |-> r.content]

\* the lines between the directives of block b when out replaces its content
spanWith(b, out) ==
  SubSeq(lines(contents), b.start - b.opts.SkipLines + 1, b.lo)
    \o out \o SubSeq(lines(contents), b.hi + 1, b.end - 1)

\* C4: once sorted() has returned the lines of an outer region, the inner
\* regions between the outer directives are the inner regions of the input,
\* each with its start directive, its sorted content and an end directive
\* together in that order, whatever the outer region's options.
C4_NestingPreserved ==
  pc = "sorted" /\ Len(blk.nestedBlocks) > 0 =>
    /\ wellNested(spanWith(blk, res.lines))
    /\ { withoutEnd(r) : r \in discoveredChildren(spanWith(blk, res.lines)) }
         = { withoutEnd(r) : r \in correctedChildren(blk) }

\* C5: when an outer region with the default grouping and no skipped lines
\* holds directly nested regions, and both an inner region and the outer
\* groups are out of order, one call of sorted() on the outer region returns
\* lines in which the outer groups are sorted and every inner region stands
\* with its directive lines unchanged around its sorted content, also when
\* the inner region's line count changed.
C5_BothLevelsInOnePass ==
  ( /\ pc = "sorted" /\ Len(blk.nestedBlocks) > 0
    /\ blk.opts.Group /\ blk.opts.SkipLines = 0
    /\ ~NoChildChanged(blk)
    /\ ~NonDecreasing(blk.opts, Locals.w1, Locals.groups) ) =>
    /\ wellNested(spanWith(blk, res.lines))
    /\ discoveredChildren(spanWith(blk, res.lines)) = correctedChildren(blk)
    /\ IsStableSortOf(blk.opts, Locals.w1, Locals.groups, Locals.trims,
                      blk.opts.NewlineSeparated, res.lines)

(***************************************************************************)
(* Files of up to two segments, each a region, a lone directive or a plain *)
(* line, under each line ending.                                           *)
(***************************************************************************)
MaxBody == 2

Bodies ==
  UNION { [1..n -> {<<98>>, <<97>>}] : n \in 0..MaxBody }
    \cup { <<<<98>>, <<97, COMMA>>>>, <<<<98, COMMA>>, <<97>>>>, <<<<98>>, <<97>>, <<>>>> }

Segments ==
  { <<s>> \o body \o <<LEnd>> : s \in {LStart, LStartWith(OptSkip1)}, body \in Bodies }
    \cup { <<>>, <<LEnd>>, <<LStart>>, <<LStartWith(OptBad)>>, <<<<99>>>> }

SegmentFiles ==
  { Join(s1 \o s2, e) : s1 \in Segments, s2 \in Segments, e \in Endings }

InitSegments == InitWith(SegmentFiles)

SpecSegments == InitSegments /\ [][Next]_vars

(***************************************************************************)
(* C6: the finding of a region that is out of order                        *)
(***************************************************************************)
\* what block discovery finds in the file
Discovered == newBlocks(lines(contents), 1, NoModifiedLines, defaultOptions)

\* every line of ls followed by the line ending
terminated(ls, ending) == Flatten([k \in 1..Len(ls) |-> ls[k] \o ending])

\* finding f reports block b as out of order, over its content lines, with one
\* fix of one replacement that puts the corrected lines for that range
IsUnorderedFinding(f, b, corrected, ending) ==
  /\ f.Message = errorUnordered
  /\ f.Lines = [Start |-> b.lo + 1, End |-> b.hi]
  /\ Len(f.Fixes) = 1
  /\ Len(f.Fixes[1].Replacements) = 1
  /\ f.Fixes[1].Replacements[1].Lines = f.Lines
  /\ f.Fixes[1].Replacements[1].NewContent = terminated(corrected, ending)

\* the findings of found that start at the first content line of block b
FindingsAt(found, b) == { k \in 1..Len(found) : found[k].Lines.Start = b.lo + 1 }

\* every top-level region that is out of order has one finding, whose fix is
\* automatic as auto says
OneFindingPerRegion(auto(_)) ==
  pc = "findings" =>
    \A k \in 1..Len(Discovered.blocks) :
      LET b == Discovered.blocks[k]
          r == sorted(b, lines(contents))
      IN ~r.alreadySorted =>
           /\ Cardinality(FindingsAt(fs, b)) = 1
           /\ \A i \in FindingsAt(fs, b) :
                /\ IsUnorderedFinding(fs[i], b, r.lines, lineEnding(contents))
                /\ fs[i].Fixes[1].automatic = auto(Discovered)

RECURSIVE unmatchedFrom(_, _, _)
unmatchedFrom(ls, i, open) ==
  IF i > Len(ls) THEN { [line |-> open[k], missing |-> "end"] : k \in 1..Len(open) }
  ELSE IF Contains(ls[i], <<StartTok>>) THEN unmatchedFrom(ls, i + 1, Append(open, i))
  ELSE IF Contains(ls[i], <<EndTok>>)
    THEN IF Len(open) = 0
         THEN {[line |-> i, missing |-> "start"]} \cup unmatchedFrom(ls, i + 1, open)
         ELSE unmatchedFrom(ls, i + 1, SubSeq(open, 1, Len(open) - 1))
  ELSE unmatchedFrom(ls, i + 1, open)

Unmatched == unmatchedFrom(lines(contents), 1, <<>>)

\* the findings of found that report a directive without its partner
MissingFindings(found) ==
  { k \in 1..Len(found) : \E side \in {"start", "end"} : found[k].Message = errorMissingDirective(side) }

C8_NoFixWhenUnmatched ==
  pc = "fixed" /\ Unmatched # {} =>
    /\ fixed = contents
    /\ \A k \in 1..Len(Discovered.blocks) :
         ~sorted(Discovered.blocks[k], lines(contents)).alreadySorted =>
           \E i \in 1..Len(warnings) :
             /\ warnings[i].Message = errorUnordered
             /\ warnings[i].Lines.Start = Discovered.blocks[k].lo + 1
             /\ automaticFixes(warnings[i]) = <<>>

\* C9: Findings, Fix and sorted() return on every file: none of them ends in
\* a slice out of range or another panic.
C9_NoPanic == pc # "panic"

(***************************************************************************)
(* C10: the trailing comma                                                 *)
(***************************************************************************)
CommaItems ==
  { <<97, COMMA>>, <<97>>, <<98, COMMA>>, <<98>>, <<97, COMMA, COMMA>>, <<>>, <<SLASH, SLASH>> }

CommaFiles ==
  { Join(<<s>> \o body \o <<LEnd>>, <<LF>>) :
      s \in {LStart, LStartWith(OptNewlineSep)},
      body \in UNION { [1..n -> CommaItems] : n \in 0..MaxItems } }

InitComma == InitWith(CommaFiles)

SpecComma == InitComma /\ [][Next]_vars

\* the last content line of group g over w
lastLine(w, g) == w[g.lines.end]

\* where the last line of the k-th group, in the order p, stands in the output
RECURSIVE endPos(_, _, _, _)
endPos(gs, p, k, sep) ==
  IF k = 0 THEN 0
  ELSE endPos(gs, p, k - 1, sep) + (IF sep /\ k > 1 THEN 1 ELSE 0)
       + numComment(gs[p[k]]) + numLines(gs[p[k]])

\* in the lines out, the item that stands last has no trailing comma and every
\* other item ends with exactly one
CommaLaw(opts, w, gs, out) ==
  LET p == byRank(opts, w, gs)
      data == { k \in 1..Len(p) : numLines(gs[p[k]]) > 0 }
      line(k) == out[endPos(gs, p, k, opts.NewlineSeparated)]
  IN \A k \in data :
       IF \A l \in data : l <= k
       THEN ~HasSuffix(line(k), <<COMMA>>)
       ELSE HasSuffix(line(k), <<COMMA>>) /\ ~HasSuffix(line(k), <<COMMA, COMMA>>)

\* every item of items but the last ends with a comma (with single: with one
\* comma only), and the last ends with none
AllButLastHaveComma(w, items, single) ==
  /\ Len(items) > 0
  /\ \A k \in 1..(Len(items) - 1) :
       /\ HasSuffix(lastLine(w, items[k]), <<COMMA>>)
       /\ single => ~HasSuffix(lastLine(w, items[k]), <<COMMA, COMMA>>)
  /\ ~HasSuffix(lastLine(w, items[Len(items)]), <<COMMA>>)

\* the items of the region: its groups that have content lines, under
\* newline_separated without the blank lines
regionItems == dataGroupsOf(IF blk.opts.NewlineSeparated
                            THEN withoutNewlines(Locals.w0, Locals.allGroups)
                            ELSE Locals.allGroups)

\* C10 as claimed: when every item of a region but the last ends with a comma
\* and the last does not, then after sorting with remove_duplicates on the
\* item that ends up last has no trailing comma and every other item ends
\* with exactly one comma.
C10_TrailingCommaOfItems ==
  ( /\ pc = "sorted" /\ blk.opts.RemoveDuplicates
    /\ AllButLastHaveComma(Locals.w0, regionItems, FALSE) ) =>
    CommaLaw(blk.opts, Locals.w1, Locals.groups, res.lines)

\* C10: when every group of a region that has content lines, a blank line
\* counting as one, ends with exactly one comma, but for the last, which ends
\* with none, then after sorting with remove_duplicates on the item that ends
\* up last has no trailing comma and every other item ends with exactly one.
C10_TrailingComma ==
  ( /\ pc = "sorted" /\ blk.opts.RemoveDuplicates
    /\ AllButLastHaveComma(Locals.w0, dataGroupsOf(Locals.allGroups), TRUE) ) =>
    CommaLaw(blk.opts, Locals.w1, Locals.groups, res.lines)

\* three items, the first two with a comma, that sorted() had to reorder
C10_Witness ==
  /\ pc = "sorted" /\ blk.opts.RemoveDuplicates /\ ~res.alreadySorted
  /\ AllButLastHaveComma(Locals.w0, dataGroupsOf(Locals.allGroups), TRUE)
  /\ Len(dataGroupsOf(Locals.allGroups)) >= 3
  /\ Len(dataGroupsOf(Locals.groups)) >= 2

(***************************************************************************)
(* C11: remove_duplicates                                                  *)
(***************************************************************************)
\* the groups that the duplicate removal of block b looks at, over the lines w
dedupCandidates(b, w, all) ==
  IF b.opts.NewlineSeparated THEN SelectSeq(all, LAMBDA g : ~isNewline(w, g)) ELSE all

\* group i has the joined content and the comment lines of an earlier group
RepeatsSignature(w, gs, i) ==
  \E j \in 1..(i - 1) :
    /\ joinedLines(w, gs[j]) = joinedLines(w, gs[i])
    /\ groupComment(w, gs[j]) = groupComment(w, gs[i])

\* group i has the content lines and the comment lines of an earlier group
RepeatsLines(w, gs, i) ==
  \E j \in 1..(i - 1) :
    /\ groupContent(w, gs[j]) = groupContent(w, gs[i])
    /\ groupComment(w, gs[j]) = groupComment(w, gs[i])

\* the groups of gs whose index is in keep, in the order of gs
RECURSIVE groupsAt(_, _, _)
groupsAt(gs, keep, i) ==
  IF i > Len(gs) THEN <<>>
  ELSE (IF i \in keep THEN <<gs[i]>> ELSE <<>>) \o groupsAt(gs, keep, i + 1)

\* the number of lines of the groups gs
RECURSIVE lineCount(_)
lineCount(gs) ==
  IF Len(gs) = 0 THEN 0 ELSE numComment(gs[1]) + numLines(gs[1]) + lineCount(Tail(gs))

MaxNumeric == 2

NumericPrefixes == { <<>>, <<97>> }

\* "9", "10", "09", "100"
DigitRuns == { <<57>>, <<49, 48>>, <<48, 57>>, <<49, 48, 48>> }

NumericSuffixes == { <<>>, <<98>> }

NumericItems == { p \o d \o q : p \in NumericPrefixes, d \in DigitRuns, q \in NumericSuffixes }

NumericStarts == { LStart, LStartWith(OptNumeric) }

NumericFiles ==
  { Join(<<s>> \o body \o <<LEnd>>, <<LF>>) :
      s \in NumericStarts, body \in UNION { [1..n -> NumericItems] : n \in 0..MaxNumeric } }

InitNumeric == InitWith(NumericFiles)

SpecNumeric == InitNumeric /\ [][Next]_vars

\* the integer a run of digits denotes
RECURSIVE valueOf(_)
valueOf(ds) ==
  IF Len(ds) = 0 THEN 0 ELSE 10 * valueOf(SubSeq(ds, 1, Len(ds) - 1)) + (ds[Len(ds)] - 48)

\* positions i..j of x hold a whole run of digits
IsRun(x, i, j) ==
  /\ i <= j
  /\ \A k \in i..j : IsDigit(x[k])
  /\ i = 1 \/ ~IsDigit(x[i - 1])
  /\ j = Len(x) \/ ~IsDigit(x[j + 1])

\* the values <<v, w>> of the runs of x and y, whenever x and y are the same
\* text around one run of digits each
RunValues(x, y) ==
  { <<valueOf(SubSeq(x, i, j)), valueOf(SubSeq(y, i, k))>> :
      <<i, j, k>> \in { t \in (1..Len(x)) \X (1..Len(x)) \X (1..Len(y)) :
                          /\ IsRun(x, t[1], t[2])
                          /\ IsRun(y, t[1], t[3])
                          /\ SubSeq(x, 1, t[1] - 1) = SubSeq(y, 1, t[1] - 1)
                          /\ SubSeq(x, t[2] + 1, Len(x)) = SubSeq(y, t[3] + 1, Len(y)) } }

\* C12: with numeric=yes, of two items that are the same text around one run
\* of digits each, the comparator puts the one whose run denotes the smaller
\* integer first, whatever the lengths of the runs, and the lines sorted()
\* returns never hold the larger before the smaller.
C12_NumericOrder ==
  (pc = "sorted" /\ blk.opts.Numeric) =>
    /\ \A m, n \in 1..Len(Locals.groups) :
         \A v \in RunValues(joinedLines(Locals.w1, Locals.groups[m]),
                            joinedLines(Locals.w1, Locals.groups[n])) :
           v[1] < v[2] => lessFn(blk.opts, Locals.w1, Locals.groups[m], Locals.groups[n]) < 0
    /\ \A m, n \in 1..Len(res.lines) :
         m < n => \A v \in RunValues(res.lines[m], res.lines[n]) : v[1] <= v[2]

\* a numeric region that holds a10b before a9b is returned with a9b first
C12_Witness ==
  /\ pc = "sorted"
  /\ blk.opts.Numeric
  /\ regionLines(blk) = << <<97, 49, 48, 98>>, <<97, 57, 98>> >>
  /\ ~res.alreadySorted
  /\ res.lines = << <<97, 57, 98>>, <<97, 49, 48, 98>> >>

(***************************************************************************)
(* Files that hold one region with a prefix_order, whose items start with  *)
(* one, two or none of the configured prefixes.                            *)
(***************************************************************************)
MaxPrefixed == 3

\* "ab", "ac", "b", "c", "//"
PrefixedItems == { <<97, 98>>, <<97, 99>>, <<98>>, <<99>>, <<SLASH, SLASH>> }

PrefixStarts == { LStartWith(o) : o \in {OptPrefixLongest, OptPrefixEmpty, OptPrefixOrder} }

PrefixFiles ==
  { Join(<<s>> \o body \o <<LEnd>>, <<LF>>) :
      s \in PrefixStarts, body \in UNION { [1..n -> PrefixedItems] : n \in 0..MaxPrefixed } }

InitPrefix == InitWith(PrefixFiles)

SpecPrefix == InitPrefix /\ [][Next]_vars

\* the place in the configured order ps of the longest prefix that content
\* starts with, the place after all of them when it starts with none
configuredPosition(ps, content) ==
  LET M == { i \in 1..Len(ps) : HasPrefix(content, ps[i]) }
  IN IF M = {} THEN Len(ps) + 1
     ELSE CHOOSE i \in M :
            \A j \in M : Len(ps[j]) < Len(ps[i]) \/ (Len(ps[j]) = Len(ps[i]) /\ i <= j)

\* the groups of w, cut as the block's options cut them, that have content
contentGroups(w, opts) == SelectSeq(groupLines(w, opts).groups, LAMBDA g : numLines(g) > 0)

\* C13: with prefix_order configured, of two groups that have content the
\* comparator puts first the one whose longest configured prefix is
\* configured earlier; content that starts with no configured prefix counts
\* as configured after all of them, and with an empty prefix configured it
\* starts with that one at least.  The groups of the returned lines follow
\* each other in that order.
C13_PrefixOrder ==
  (pc = "sorted" /\ Len(blk.opts.PrefixOrder) > 0) =>
    /\ \A m, n \in 1..Len(Locals.groups) :
         ( /\ numLines(Locals.groups[m]) > 0
           /\ numLines(Locals.groups[n]) > 0
           /\ configuredPosition(blk.opts.PrefixOrder, joinedLines(Locals.w1, Locals.groups[m]))
                < configuredPosition(blk.opts.PrefixOrder, joinedLines(Locals.w1, Locals.groups[n])) )
         => lessFn(blk.opts, Locals.w1, Locals.groups[m], Locals.groups[n]) < 0
    /\ LET out == contentGroups(res.lines, blk.opts)
       IN \A m, n \in 1..Len(out) :
            m < n => configuredPosition(blk.opts.PrefixOrder, joinedLines(res.lines, out[m]))
                       <= configuredPosition(blk.opts.PrefixOrder, joinedLines(res.lines, out[n]))

\* under prefix_order=b,,a the region ab, c, b is returned as b, c, ab
C13_Witness ==
  /\ pc = "sorted"
  /\ blk.opts.PrefixOrder = << <<98>>, <<>>, <<97>> >>
  /\ regionLines(blk) = << <<97, 98>>, <<99>>, <<98>> >>
  /\ res.lines = << <<98>>, <<99>>, <<97, 98>> >>

(***************************************************************************)
(* Files that hold one region whose lines are items and comment lines,     *)
(* one of them indented.                                                   *)
(***************************************************************************)
MaxSticky == 3

\* "a", "b,", "//x", "  //x"
StickyItems == { <<97>>, <<98, COMMA>>, <<SLASH, SLASH, 120>>, <<SP, SP, SLASH, SLASH, 120>> }

StickyStarts == { LStart, LStartWith(OptStickyNo), LStartWith(OptGroupNo) }

StickyFiles ==
  { Join(<<s>> \o body \o <<LEnd>>, <<LF>>) :
      s \in StickyStarts, body \in UNION { [1..n -> StickyItems] : n \in 0..MaxSticky } }

InitSticky == InitWith(StickyFiles)

SpecSticky == InitSticky /\ [][Next]_vars

\* a line that starts with a sticky prefix of the region, a line of content
IsCommentLine(opts, l) == \E p \in opts.StickyPrefixes : HasPrefix(TrimLeftSpace(l), p)

IsContentLine(opts, l) == ~IsBlank(l) /\ ~IsCommentLine(opts, l)

\* the same item, with or without a trailing comma
SameItem(x, y) == TrimSuffix(x, <<COMMA>>) = TrimSuffix(y, <<COMMA>>)

\* somewhere in out the line c is directly followed by the item l
FollowedBy(out, c, l) == \E j \in 1..(Len(out) - 1) : out[j] = c /\ SameItem(out[j + 1], l)

\* line i of ls is not indented deeper than the first line of content before it
NotDeeper(opts, ls, i) ==
  \A k \in 1..(i - 1) :
    (IsContentLine(opts, ls[k]) /\ \A j \in 1..(k - 1) : ~IsContentLine(opts, ls[j]))
      => countSpaces(ls[i]) <= countSpaces(ls[k])

\* line i of the region is the last comment line of a group of the region
\* and line i + 1 the first line of that group's content
AttachedTo(gs, i) ==
  \E k \in 1..Len(gs) :
    /\ gs[k].comment.start < i
    /\ gs[k].comment.end = i
    /\ gs[k].lines.start = i
    /\ gs[k].lines.end > i

MaxSeparated == 3

\* "b", "a", "", "  ", " a", "//x"
SeparatedItems == { <<98>>, <<97>>, <<>>, <<SP, SP>>, <<SP, 97>>, <<SLASH, SLASH, 120>> }

SeparatedStarts ==
  { LStartWith(OptNewlineSep), LStartWith(OptNewlineSep \o <<SP>> \o OptGroupNo) }

SeparatedFiles ==
  { Join(<<s>> \o body \o <<LEnd>>, <<LF>>) :
      s \in SeparatedStarts, body \in UNION { [1..n -> SeparatedItems] : n \in 0..MaxSeparated } }

InitSeparated == InitWith(SeparatedFiles)

SpecSeparated == InitSeparated /\ [][Next]_vars

\* the 0-based offset in out at which the k-th of the items lg starts, when
\* one line stands between adjacent items
RECURSIVE itemStart(_, _)
itemStart(lg, k) ==
  IF k = 1 THEN 0
  ELSE itemStart(lg, k - 1) + numComment(lg[k - 1]) + numLines(lg[k - 1]) + 1

\* out is the items lg over w in their order, every item as its comment lines
\* and its content lines, with exactly one empty line between two adjacent
\* items, none before the first and none after the last
OneBlankBetween(w, lg, out) ==
  LET n == Len(lg)
      size(k) == numComment(lg[k]) + numLines(lg[k])
  IN IF n = 0 THEN out = <<>>
     ELSE /\ Len(out) = itemStart(lg, n) + size(n)
          /\ \A k \in 1..n :
               SubSeq(out, itemStart(lg, k) + 1, itemStart(lg, k) + size(k)) = allLines(w, lg[k])
          /\ \A k \in 2..n : out[itemStart(lg, k)] = <<>>

\* out is the region's items (its groups that are not one blank line, the
\* later copies of a duplicate dropped) in non-decreasing order, one empty
\* line between two adjacent items
SortedAndSeparated(out) ==
  \E p \in Permutations(1..Len(Locals.groups)) :
    LET lg == [k \in 1..Len(Locals.groups) |-> Locals.groups[p[k]]]
        w == trimTrailingComma(Locals.trims, Locals.w1, lg)
    IN /\ NonDecreasing(blk.opts, Locals.w1, lg)
       /\ \A k \in 1..Len(lg) : ~isNewline(w, lg[k])
       /\ OneBlankBetween(w, lg, out)

\* no blank line stands first or last in out, and no two stand together
BlankLinesOnlyBetween(out) ==
  /\ out # <<>> => ~IsBlank(out[1]) /\ ~IsBlank(out[Len(out)])
  /\ \A i \in 1..(Len(out) - 1) : ~(IsBlank(out[i]) /\ IsBlank(out[i + 1]))

MaxSkipped == 3

\* "b", "a", ""
SkipItems == { <<98>>, <<97>>, <<>> }

SkipStarts == { LStart, LStartWith(OptSkip1), LStartWith(OptSkip2) }

SkipFiles ==
  { Join(<<s>> \o body \o <<LEnd>>, <<LF>>) :
      s \in SkipStarts, body \in UNION { [1..n -> SkipItems] : n \in 0..MaxSkipped } }

InitSkip == InitWith(SkipFiles)

SpecSkip == InitSkip /\ [][Next]_vars

\* the skip_lines value that the start directive on the first line gives
skipOf(ls) ==
  IF ls[1] = LStartWith(OptSkip1) THEN 1 ELSE IF ls[1] = LStartWith(OptSkip2) THEN 2 ELSE 0

\* the number of lines between the directive on the first line and the
\* directive on the last
between(ls) == Len(ls) - 2

\* C16: with skip_lines = k on a region whose start directive is the first
\* line of the file and whose end directive is the last, every call returns;
\* the k lines after the start directive are in the fixed file where they
\* were; the block and every finding begin at the (k+1)-th line after the
\* directive; and when k is at least the number of lines between the
\* directives, there is no finding and Fix returns the file as it was.
C16_SkipLines ==
  LET ls == lines(contents)
      k == skipOf(ls)
  IN /\ pc # "panic"
     /\ pc = "sorted" => blk.start = 1 + k /\ blk.lo = 1 + k
     /\ pc = "findings" =>
          /\ \A i \in 1..Len(fs) : fs[i].Lines.Start = k + 2
          /\ k >= between(ls) => fs = <<>>
     /\ pc = "fixed" =>
          /\ \A i \in 1..(k + 1) : i <= Len(ls) => lines(fixed)[i] = ls[i]
          /\ k >= between(ls) => fixed = contents /\ alreadyCorrect

(***************************************************************************)
(* C17: blank lines before the end directive                               *)
(***************************************************************************)
MaxTrailing == 4

\* "b", "a", "", "  "
TrailingItems == { <<98>>, <<97>>, <<>>, <<SP, SP>> }

TrailingStarts == { LStart, LStartWith(OptSkip1), LStartWith(OptSkip2), LStartWith(OptNewlineSep) }

TrailingFiles ==
  { Join(<<s>> \o body \o <<LEnd>>, <<LF>>) :
      s \in TrailingStarts, body \in UNION { [1..n -> TrailingItems] : n \in 0..MaxTrailing } }

InitTrailing == InitWith(TrailingFiles)

SpecTrailing == InitTrailing /\ [][Next]_vars

\* the number of blank lines that stand directly before the last line of ls,
\* the first line not counted
RECURSIVE blankRun(_, _)
blankRun(ls, i) ==
  IF i > 1 /\ IsBlank(ls[i]) THEN 1 + blankRun(ls, i - 1) ELSE 0

trailingBlank(ls) == blankRun(ls, Len(ls) - 1)

\* the last n lines of ls
lastLines(ls, n) == SubSeq(ls, Len(ls) - n + 1, Len(ls))

\* the blank lines directly before the end directive stay outside the content
\* of the block, and the fixed file ends with them and the end directive
BlankLinesKept ==
  LET ls == lines(contents)
      t == trailingBlank(ls)
  IN /\ pc = "sorted" => blk.hi = Len(ls) - 1 - t
     /\ pc = "fixed" =>
          /\ Len(lines(fixed)) >= t + 2
          /\ lastLines(lines(fixed), t + 1) = lastLines(ls, t + 1)

\* C17: on a file that is one region, Fix returns, and for any number of
\* blank lines directly before the end directive, none of them is among the
\* lines that sorted() is given, and the fixed file has the same blank lines
\* directly before its end directive.
C17_TrailingBlankLines == pc # "panic" /\ BlankLinesKept

(***************************************************************************)
(* C18: option words that do not parse                                     *)
(***************************************************************************)
MaxWords == 3

\* the words that parse, each with the field it sets and the value it gives
GoodWords ==
  { [word |-> OptGroupNo, field |-> "Group", val |-> FALSE],
    [word |-> OptSkip2, field |-> "SkipLines", val |-> 2],
    [word |-> OptNumeric, field |-> "Numeric", val |-> TRUE],
    [word |-> OptPrefixOrder, field |-> "PrefixOrder", val |-> << <<98>>, <<97>> >>] }

\* the words that do not: a key that is not known, a value that is no bool, a
\* value that is no int, a YAML list that is not closed; each with the field
\* its key names
BadWords ==
  { [word |-> OptBad, field |-> ""],
    [word |-> OptBadBool, field |-> "Group"],
    [word |-> OptBadInt, field |-> "SkipLines"],
    [word |-> OptBadList, field |-> "PrefixOrder"] }

OptionWords == { g.word : g \in GoodWords } \cup { b.word : b \in BadWords }

\* defaults that differ from the built-in ones in the fields the words name
otherDefaults ==
  [defaultOptions EXCEPT !.Group = FALSE, !.SkipLines = 1, !.Numeric = TRUE,
                         !.PrefixOrder = << <<97>> >>, !.nonNil = {"PrefixOrder"}]

WordFiles ==
  { Join(<<LStartWith(Join(ws, <<SP>>)), LEnd>>, <<LF>>) :
      ws \in UNION { [1..n -> OptionWords] : n \in 1..MaxWords } }

InitWords == InitOptions(WordFiles, {defaultOptions, otherDefaults})

SpecWords == InitWords /\ [][Next]_vars

\* the option words on the first line of the file
wordsGiven == Split(SubSeq(optionsOf(lines(contents)[1]), 2, Len(optionsOf(lines(contents)[1]))), <<SP>>)

IsBadWord(w) == \E b \in BadWords : b.word = w

\* the text of the words of ws that parse
goodText(ws) == Join(SelectSeq(ws, LAMBDA w : ~IsBadWord(w)), <<SP>>)

\* the fields of opts that come from the options text or from the defaults
optionFields(opts) == [f \in DOMAIN opts \ {"shared"} |-> opts[f]]

\* C18: when the options of a region are parsed, every word with a key that
\* is not known or a value that does not parse adds one warning; every word
\* that parses and is the last to name its field gives the field its value,
\* before or after a word that does not parse; a field that only such words
\* name has the value of the defaults; and the options are those that the
\* text without the words that do not parse gives.
C18_BadWordsOnlyWarn ==
  (pc = "parsed" /\ numParsed = 1) =>
    LET ws == wordsGiven
        bad == { j \in 1..Len(ws) : IsBadWord(ws[j]) }
        clean == parseBlockOptions(<<SLASH, SLASH>>, goodText(ws), fixerDefaults)
    IN /\ Len(got.warns) = Cardinality(bad) + Len(clean.warns)
       /\ optionFields(got.opts) = optionFields(clean.opts)
       /\ \A g \in GoodWords :
            (\E j \in 1..Len(ws) : ws[j] = g.word) => got.opts[g.field] = g.val
       /\ \A b \in BadWords :
            ( /\ b.field # ""
              /\ \E j \in 1..Len(ws) : ws[j] = b.word
              /\ \A g \in GoodWords : g.field = b.field => \A j \in 1..Len(ws) : ws[j] # g.word )
            => got.opts[b.field] = fixerDefaults[b.field]

\* three words are parsed against defaults that are not the built-in ones:
\* the one in the middle has a value that does not parse, the words before
\* and after it take effect, and the field of the middle word is as the
\* defaults have it
C18_Witness ==
  /\ pc = "parsed" /\ numParsed = 1
  /\ fixerDefaults = otherDefaults
  /\ wordsGiven = <<OptSkip2, OptBadBool, OptPrefixOrder>>
  /\ Len(got.warns) = 1
  /\ got.opts.SkipLines = 2
  /\ got.opts.PrefixOrder = << <<98>>, <<97>> >>
  /\ got.opts.Group = FALSE

(***************************************************************************)
(* C19, C20: files of one or two regions with options, parsed against      *)
(* defaults of the caller                                                  *)
(***************************************************************************)
MaxOptionWords == 2

RoundTripWords == { OptGroupNo, OptSkip2, OptStickyNo, OptStickyPrefix, OptPrefixOrder }

\* the comment markers "//" and "#"
Markers == { <<SLASH, SLASH>>, <<HASH>> }

\* a region with no content: its start line with the words ws, its end line
EmptyRegion(m, ws) ==
  << m \o <<StartTok>> \o Flatten([k \in 1..Len(ws) |-> <<SP>> \o ws[k]]), m \o <<EndTok>> >>

OneRegion ==
  { EmptyRegion(m, ws) :
      m \in Markers, ws \in UNION { [1..n -> RoundTripWords] : n \in 0..MaxOptionWords } }

ShortRegion ==
  { EmptyRegion(m, ws) : m \in Markers, ws \in UNION { [1..n -> RoundTripWords] : n \in 0..1 } }

OptionFiles ==
  { Join(r, <<LF>>) : r \in OneRegion } \cup { Join(r \o q, <<LF>>) : r, q \in ShortRegion }

\* blockOptions{}
zeroOptions ==
  [defaultOptions EXCEPT !.AllowYAMLLists = FALSE, !.Group = FALSE, !.StickyComments = FALSE,
                         !.CaseSensitive = FALSE, !.RemoveDuplicates = FALSE]

\* the built-in defaults with sticky_prefixes=x and ignore_prefixes=a,bb
listDefaults ==
  [defaultOptions EXCEPT !.StickyPrefixes = { <<120>> },
                         !.IgnorePrefixes = << <<97>>, <<98, 98>> >>,
                         !.nonNil = {"StickyPrefixes", "IgnorePrefixes"}]

OptionDefaults == { zeroOptions, defaultOptions, listDefaults }

InitRoundTrip == InitOptions(OptionFiles, OptionDefaults)

SpecRoundTrip == InitRoundTrip /\ [][Next]_vars

\* C19: when the options of a region parse without a warning, the text that
\* String() gives for them parses, against the same defaults and the same
\* comment marker, without a warning and to the same options.
C19_StringRoundTrip ==
  (pc = "reparsed" /\ got.warns = <<>>) =>
    /\ got2.warns = <<>>
    /\ optionFields(got2.opts) = optionFields(got.opts)

\* C20: no call of parseBlockOptions changes the defaults it is given.
C20_DefaultsNeverModified == [][fixerDefaults' = fixerDefaults]_vars

(***************************************************************************)
(* C21, C22, C23: block discovery over nested and dangling directives      *)
(***************************************************************************)
MaxNest == 6

NestLines == { LStart, LStartWith(OptSkip4), LEnd, <<97>> }

NestingFiles ==
  { Join(f, <<LF>>) : f \in UNION { [1..n -> NestLines] : n \in 1..MaxNest } }

InitNesting == InitWith(NestingFiles)

SpecNesting == InitNesting /\ [][Next]_vars

\* block discovery has run on the file and has returned
Searched == pc \in {"findings", "fixed", "sorted"} /\ ~Discovered.panicked

\* the pairs of a start directive and the end directive that closes it, as
\* 1-based line numbers, an end closing the last start that is still open
RECURSIVE pairsFrom(_, _, _)
pairsFrom(ls, i, open) ==
  IF i > Len(ls) THEN {}
  ELSE IF Contains(ls[i], <<StartTok>>) THEN pairsFrom(ls, i + 1, Append(open, i))
  ELSE IF Contains(ls[i], <<EndTok>>) /\ Len(open) > 0
    THEN {[start |-> open[Len(open)], end |-> i]}
           \cup pairsFrom(ls, i + 1, SubSeq(open, 1, Len(open) - 1))
  ELSE pairsFrom(ls, i + 1, open)

Pairs == pairsFrom(lines(contents), 1, <<>>)

\* block a lies strictly inside block b, a and b share no line
Inside(a, b) == b.start < a.start /\ a.end < b.end

Disjoint(a, b) == a.end < b.start \/ b.end < a.start

\* C21: the blocks that newBlocks returns are the pairs of the file (an end
\* directive with the last start directive still open), any two of them are
\* disjoint or one lies strictly inside the other, the children of a block
\* are the blocks that lie inside it and inside no block between, in file
\* order, and no block of the top-level list lies inside another block.
C21_NestedForest ==
  Searched =>
    LET all == AllBlocks(Discovered.blocks) IN
    /\ \A b \in all : \E p \in Pairs : p.end = b.end
    /\ \A a, b \in all : a = b \/ Disjoint(a, b) \/ Inside(a, b) \/ Inside(b, a)
    /\ \A b \in all :
         /\ \A k \in 1..Len(b.nestedBlocks) :
              /\ Inside(b.nestedBlocks[k], b)
              /\ ~\E d \in all : Inside(b.nestedBlocks[k], d) /\ Inside(d, b)
         /\ \A k \in 1..(Len(b.nestedBlocks) - 1) :
              b.nestedBlocks[k].end < b.nestedBlocks[k + 1].start
    /\ \A k \in 1..Len(Discovered.blocks) :
         ~\E d \in all : Inside(Discovered.blocks[k], d)

\* the skip_lines of the start line of pair p passes the end directive
SkipsPast(p) ==
  p.start + parseBlockOptions(commentMarkerOf(lines(contents)[p.start]),
                              optionsOf(lines(contents)[p.start]),
                              defaultOptions).opts.SkipLines > p.end

\* C22: every start directive that an end directive closes, and whose
\* skip_lines does not pass that end directive, gives a block that is in the
\* list newBlocks returns or below a block of that list, whether or not a
\* start directive around it is left open.
C22_ClosedRegionsKept ==
  Searched =>
    \A p \in Pairs :
      ~SkipsPast(p) => \E b \in AllBlocks(Discovered.blocks) : b.end = p.end

\* the state of newBlocks after the first n lines of the file
afterLines(n) ==
  newBlocksLoop(newBlocksInit(defaultOptions), SubSeq(lines(contents), 1, n), 0, 1,
                NoModifiedLines, defaultOptions)

\* C23: after every line of the file, newBlocks holds at most as many lists
\* of pending children as there are start directives still open.
C23_PendingWithinDepth ==
  pc # "init" =>
    \A n \in 0..Len(lines(contents)) :
      ~afterLines(n).panicked => Len(afterLines(n).nestedBlocks) <= Len(afterLines(n).starts)

(***************************************************************************)
(* C24: the lines of the file after sorting                                *)
(***************************************************************************)
\* C24: when sorted() or Findings has returned, every line of the file holds
\* the text it held before the call.
C24_RawLinesUntouched ==
  pc \in {"sorted", "findings"} => after = lines(contents)

(***************************************************************************)
(* C25: the groups of a region                                             *)
(***************************************************************************)
MaxGrouped == 4

\* "a", " b", "", "//x" and the two directives
GroupedItems == { <<97>>, <<SP, 98>>, <<>>, <<SLASH, SLASH, 120>>, LStart, LEnd }

GroupedStarts == { LStart, LStartWith(OptGroupNo), LStartWith(OptStickyNo) }

GroupedFiles ==
  { Join(<<s>> \o body \o <<LEnd>>, <<LF>>) :
      s \in GroupedStarts, body \in UNION { [1..n -> GroupedItems] : n \in 0..MaxGrouped } }

InitGrouping == InitWith(GroupedFiles)

SpecGrouping == InitGrouping /\ [][Next]_vars

\* the comment lines and then the content lines of every group, in order
RECURSIVE concatGroups(_, _, _)
concatGroups(w, gs, k) ==
  IF k > Len(gs) THEN <<>> ELSE allLines(w, gs[k]) \o concatGroups(w, gs, k + 1)

Partitions(w, opts) ==
  LET gl == groupLines(w, opts) IN ~gl.panicked /\ concatGroups(w, gl.groups, 1) = w

\* C25: the groups that groupLines returns for the lines of a region, each
\* group's comment lines followed by its content lines, concatenated in
\* order, are those lines again: nothing dropped, duplicated or reordered.
C25_GroupingPartitions ==
  pc \in {"sorted", "panic"} /\ blk # <<>> =>
    /\ Partitions(regionLines(blk), blk.opts)
    /\ ~Locals.panicked => Partitions(Locals.w0, blk.opts)

\* a region of several groups, one of them with comment lines, was grouped
C25_Witness ==
  /\ pc = "sorted"
  /\ Len(Locals.allGroups) > 1
  /\ \E k \in 1..Len(Locals.allGroups) :
       numComment(Locals.allGroups[k]) > 0 /\ numLines(Locals.allGroups[k]) > 1

(***************************************************************************)
(* C26: nested regions and the groups                                      *)
(***************************************************************************)
\* the lines of w that group lg holds, comment lines included
linesOfGroup(lg) ==
  (IF numComment(lg) > 0 THEN lg.comment.start + 1 .. lg.comment.end ELSE {})
    \cup (IF numLines(lg) > 0 THEN lg.lines.start + 1 .. lg.lines.end ELSE {})

insideNested(w, i) == \E p \in pairsFrom(w, 1, <<>>) : p.start < i /\ i <= p.end

\* line i of w meets a group that has content and is none of the sticky,
\* prefix and nested directive cases
plainCase(w, gs, opts, i) ==
  /\ i > 1
  /\ \E k \in 1..Len(gs) : numLines(gs[k]) > 0 /\ i - 1 \in gs[k].lines.start + 1 .. gs[k].lines.end
  /\ ~insideNested(w, i)
  /\ ~hasStickyPrefix(opts, w[i])
  /\ ~hasGroupPrefix(opts, w[i])

\* the group that holds line i of w among its content lines
groupOfLine(gs, i) ==
  CHOOSE k \in 1..Len(gs) : numLines(gs[k]) > 0 /\ i \in gs[k].lines.start + 1 .. gs[k].lines.end

\* C27: with group=yes and block=no, a line that meets a group with content
\* and is no sticky, prefix or nested directive case joins that group exactly
\* when it is indented deeper than the first content line of that group.
C27_BaselineOfCurrentGroup ==
  pc = "sorted" /\ blk.opts.Group /\ ~blk.opts.Block =>
    LET w       == Locals.w0
        gs      == Locals.allGroups
        indents == calculateIndents(w)
    IN \A i \in 1..Len(w) :
         plainCase(w, gs, blk.opts, i) =>
           LET k == groupOfLine(gs, i - 1) IN
           (i \in gs[k].lines.start + 1 .. gs[k].lines.end)
             <=> indents[i] > indents[gs[k].lines.start + 1]

(***************************************************************************)
(* C28: block mode                                                         *)
(***************************************************************************)
MaxBlock == 2

\* lines of brackets, quotes, escaped quotes and comments
BlockItems ==
  { <<LPAREN>>, <<RPAREN>>, <<97>>, <<DQUOTE>>, <<SQUOTE>>, <<BACKTICK>>,
    <<DQUOTE, LPAREN>>, <<LPAREN, DQUOTE>>, <<DQUOTE, RPAREN>>, <<SQUOTE, DQUOTE>>,
    <<SLASH, SLASH, LPAREN>>, <<LPAREN, SLASH, SLASH, RPAREN>>, <<DQUOTE, SLASH, SLASH, DQUOTE, LPAREN>>,
    <<LBRACKET>>, <<RBRACKET>>, <<123, RPAREN>>, <<DQUOTE, DQUOTE, DQUOTE>>,
    <<BACKSLASH, DQUOTE, LPAREN>>, <<LPAREN, 97, RPAREN>>, <<RPAREN, LPAREN>> }

BlockStarts == { LStartWith(OptBlock), LStartWith(OptBlock \o <<SP>> \o OptGroupNo) }

BlockFiles ==
  { Join(<<s>> \o body \o <<LEnd>>, <<LF>>) :
      s \in BlockStarts, body \in UNION { [1..n -> BlockItems] : n \in 0..MaxBlock } }

InitBlock == InitWith(BlockFiles)

SpecBlock == InitBlock /\ [][Next]_vars

quoteTokens ==
  { <<DQUOTE, DQUOTE, DQUOTE>>, <<SQUOTE, SQUOTE, SQUOTE>>, <<BACKTICK, BACKTICK, BACKTICK>>,
    <<DQUOTE>>, <<SQUOTE>>, <<BACKTICK>> }

\* the quote token that stands at place i of s: the longest one, and a single
\* quote character after a backslash is none
quoteAt(s, i) ==
  LET cands == { q \in quoteTokens :
                   /\ i + Len(q) - 1 <= Len(s)
                   /\ SubSeq(s, i, i + Len(q) - 1) = q
                   /\ ~(Len(q) = 1 /\ i > 1 /\ s[i - 1] = BACKSLASH) }
  IN IF cands = {} THEN <<>> ELSE CHOOSE q \in cands : \A r \in cands : Len(r) <= Len(q)

\* the characters of s from place i that stand outside quoted strings and
\* before a comment marker, and the quote that is open at the end of s
RECURSIVE outsideFrom(_, _, _, _)
outsideFrom(s, i, quote, cm) ==
  IF i > Len(s) THEN [out |-> <<>>, quote |-> quote]
  ELSE IF quote = <<>> THEN
    IF cm # <<>> /\ i + Len(cm) - 1 <= Len(s) /\ SubSeq(s, i, i + Len(cm) - 1) = cm
      THEN [out |-> <<>>, quote |-> <<>>]
    ELSE IF quoteAt(s, i) # <<>> THEN outsideFrom(s, i + Len(quoteAt(s, i)), quoteAt(s, i), cm)
    ELSE LET r == outsideFrom(s, i + 1, quote, cm) IN [r EXCEPT !.out = <<s[i]>> \o @]
  ELSE IF quoteAt(s, i) = quote THEN outsideFrom(s, i + Len(quote), <<>>, cm)
  ELSE outsideFrom(s, i + 1, quote, cm)

RECURSIVE outsideLines(_, _, _, _)
outsideLines(ls, k, quote, cm) ==
  IF k > Len(ls) THEN [out |-> <<>>, quote |-> quote]
  ELSE LET r == outsideFrom(ls[k], 1, quote, cm)
           t == outsideLines(ls, k + 1, r.quote, cm)
       IN [out |-> r.out \o t.out, quote |-> t.quote]

countOf(s, c) == Cardinality({ i \in 1..Len(s) : s[i] = c })

\* some bracket type is unbalanced outside the quotes, or a quote is open
Unbalanced(ls, cm) ==
  LET r == outsideLines(ls, 1, <<>>, cm) IN
  \/ r.quote # <<>>
  \/ \E p \in { <<LPAREN, RPAREN>>, <<LBRACKET, RBRACKET>>, <<123, 125>> } :
       countOf(r.out, p[1]) # countOf(r.out, p[2])

\* the codeBlock after the lines ls have been appended to a new group
RECURSIVE appended(_, _, _)
appended(cb, ls, opts) ==
  IF ls = <<>> THEN cb ELSE appended(codeBlockAppend(cb, Head(ls), opts), Tail(ls), opts)

MaxValue == 4

\* "prefix_order="
KeyPrefixOrder == <<112, 114, 101, 102, 105, 120, 95, 111, 114, 100, 101, 114, 61>>

ValueChars == { LBRACKET, RBRACKET, DQUOTE, SQUOTE, BACKSLASH, SP, 97 }

\* bracketed values: "[" and up to MaxValue characters
ListValues ==
  { <<LBRACKET>> \o v : v \in UNION { [1..n -> ValueChars] : n \in 0..MaxValue } }

ListFiles ==
  { Join(<<LStartWith(KeyPrefixOrder \o v), <<98>>, <<97>>, LEnd>>, <<LF>>) : v \in ListValues }

InitList == InitWith(ListFiles)

SpecList == InitList /\ [][Next]_vars

\* the value that follows prefix_order= on the start line of the file
listValue == Cut(optionsOf(lines(contents)[1]), EQUALS).after

\* what holds before the character at place i of s is read: the open quote
\* (0 for none), the count of open brackets outside quotes, and whether the
\* character is one that a backslash inside double quotes escapes
RECURSIVE stateAt(_, _)
stateAt(s, i) ==
  IF i = 1 THEN [quote |-> 0, depth |-> 0, esc |-> FALSE]
  ELSE LET st == stateAt(s, i - 1)
           c  == s[i - 1]
       IN IF st.esc THEN [st EXCEPT !.esc = FALSE]
          ELSE IF c = LBRACKET /\ st.quote = 0 THEN [st EXCEPT !.depth = @ + 1]
          ELSE IF c = RBRACKET /\ st.quote = 0 THEN [st EXCEPT !.depth = @ - 1]
          ELSE IF c \in {DQUOTE, SQUOTE}
            THEN IF st.quote = c THEN [st EXCEPT !.quote = 0]
                 ELSE IF st.quote = 0 THEN [st EXCEPT !.quote = c] ELSE st
          ELSE IF c = BACKSLASH /\ st.quote = DQUOTE /\ i <= Len(s) /\ s[i] \in {DQUOTE, BACKSLASH}
            THEN [st EXCEPT !.esc = TRUE]
          ELSE st

\* the closing brackets of s outside quotes at depth 1
Closers(s) ==
  { i \in 1..Len(s) :
      s[i] = RBRACKET /\ stateAt(s, i).quote = 0 /\ ~stateAt(s, i).esc /\ stateAt(s, i).depth = 1 }

\* the bracket at place i is the last character or a space follows it
Ends(s, i) == i = Len(s) \/ s[i + 1] = SP

least(S) == CHOOSE i \in S : \A j \in S : i <= j

\* the list ends at the bracket at place i: the text through the bracket and
\* the space after it is the list, what follows is left
endsAt(s, i) ==
  LET e == IF i < Len(s) THEN i + 1 ELSE i IN
  /\ tryFindYAMLListAtStart(s) = [err |-> "", list |-> SubSeq(s, 1, e), rest |-> SubSeq(s, e + 1, Len(s))]
  /\ ~popList(s, TRUE).err
  /\ popList(s, TRUE).rest = SubSeq(s, e + 1, Len(s))

\* the value is rejected as an unterminated list and nothing is consumed
rejected(s) ==
  /\ tryFindYAMLListAtStart(s).err = "unterminated YAML list"
  /\ popList(s, TRUE).err
  /\ popList(s, TRUE).rest = s
  /\ Len(got.warns) > 0
  /\ got.opts.PrefixOrder = defaultOptions.PrefixOrder

fixedRegions ==
  IF Unmatched # {} THEN <<>>
  ELSE SelectSeq(Discovered.blocks, LAMBDA b : ~sorted(b, lines(contents)).alreadySorted)

\* the lines ls of the file from line k on (1-based), with the content range
\* of each region of bs replaced by its corrected lines
RECURSIVE replaced(_, _, _)
replaced(ls, k, bs) ==
  IF bs = <<>> THEN SubSeq(ls, k, Len(ls))
  ELSE SubSeq(ls, k, Head(bs).lo) \o sorted(Head(bs), ls).lines
         \o replaced(ls, Head(bs).hi + 1, Tail(bs))

\* C30: the text Fix returns is the input with the content range of each
\* region it fixes automatically replaced by the region's corrected lines;
\* every other line is as in the input, in the same order and with the same
\* line ending.
C30_FixFrame ==
  pc = "fixed" =>
    fixed = Join(replaced(lines(contents), 1, fixedRegions), lineEnding(contents))
====
